---- MODULE Spec2Model ----
(***************************************************************************)
(* sUSDe term-structure dashboard: the SQLite store, the Pendle snapshot   *)
(* ingestion, the term-spread engine, the 7-day smoothing pass, the regime *)
(* classifier, the decile analytics and the term-structure endpoint.       *)
(*                                                                         *)
(* Representation.  Calendar days (YYYY-MM-DD strings, compared as text by *)
(* SQLite and by JavaScript) are day numbers 1, 2, ...; canonical ISO days *)
(* order as text exactly as they order in time.  REAL yields are exact      *)
(* fixed-point integers: the decimal fraction 1.0 is YieldOne units, so    *)
(* one percentage point is PctPoint = 840 units, a multiple of every       *)
(* window length 1..7 and of every leg size the market list allows; the    *)
(* inputs are multiples of PctPoint fractions for which every division of  *)
(* the code is exact.                                                      *)
(***************************************************************************)
EXTENDS Integers, Sequences, FiniteSets, TLC

VARIABLES
    daily_snapshots,  \* table daily_snapshots: <<date, market_addr>> -> row
    term_spreads,     \* table term_spreads: date -> row
    tieBreak,         \* order in which SQLite returns rows that tie in ORDER BY
    ingests,          \* number of Pendle fetches (or upserts) handled so far
    lastOp,           \* the handler that completed last
    api,              \* last response of GET /api/term-structure or /api/term-spreads
    termSpreadsWithBtc, \* dashboard data: the spread series joined with prices
    btcPriceMap,      \* dashboard data: date -> BTC price
    timeZone,         \* the time zone of the host the dashboard runs on
    lookup,           \* last call of findBtcPrice: its date and its result
    btc_prices,       \* table btc_prices: date -> price
    defillama_apy,    \* table defillama_apy: date -> apy
    ethena_yields,    \* table ethena_yields: date -> staking yield
    sync_log,         \* table sync_log: the rows in insertion order
    feeds,            \* what each external source answers, and which are down
    today,            \* the server's current calendar day (UTC)
    sync,             \* the position of fullSync and what it has done
    other,            \* a second fullSync, waiting at a fetch while sync runs on
    supplied,         \* history: the parameters of the last upsertSnapshot per key
    batch,            \* history: the last Pendle answer handled, and the table before
    volChart,         \* dashboard: the realized-volatility series of the chart
    dashboard,        \* dashboard: the data and errors set by the last loadData
    regimeStats,      \* dashboard: the observations counted per regime bucket
    cls,              \* input and result of interpretTermSpread
    deciles           \* result of computeDeciles

vars == <<daily_snapshots, term_spreads, tieBreak, ingests, lastOp, api,
          termSpreadsWithBtc, btcPriceMap, timeZone, lookup,
          btc_prices, defillama_apy, ethena_yields, sync_log, feeds, today, sync,
          supplied, batch, volChart, dashboard, other, regimeStats, cls, deciles>>

\* What the price lookups read and write.
lookupVars == <<timeZone, lookup>>

\* The tables fullSync fills besides the snapshots and spreads, the sources
\* it reads, the clock and its own position.
syncVars == <<btc_prices, defillama_apy, ethena_yields, sync_log, feeds, today, sync>>

\* ---------------------------------------------------------------- bounds
MaxDate == 2        \* calendar days 1..MaxDate carry snapshots
MaxIngests == 2     \* Pendle fetches handled in one behaviour
MaxBatch == 4       \* entries of one Pendle answer (SpecBatch)
MaxVolObs == 46     \* rows of the series behind the volatility chart (SpecVol)
MaxStatObs == 2     \* observations behind the regime statistics (SpecStats)
MaxRows == 4        \* rows of a drawn daily_snapshots table
MaxSeries == 8      \* entries of a drawn spread series
MaxAbsPct == 6      \* classified spreads lie within +-MaxAbsPct points
MaxApiDate == 3     \* calendar days of the tables the endpoint is asked about
MaxApiRows == 2     \* rows of those tables
MaxObs == 31        \* observations of a drawn spread series (deciles)
MaxPriceDay == 9    \* calendar days of the price maps a lookup is made on
MaxSyncs == 2       \* runs of fullSync in one behaviour
MaxUpserts == 3     \* runs of upsertSnapshot in one behaviour
MaxToday == 2       \* the server's clock runs over the days 1..MaxToday

\* ---------------------------------------------------------------- values
\* A nullable column or field holds NULL or Some(v).
NULL == <<>>
Some(v) == <<v>>

PctPoint == 2 * 420
YieldOne == 100 * PctPoint

Dates == 1..MaxDate

\* The market list: one front market, two markets sharing an expiry (as
\* 0x93a8.. and 0xd1d7.. share 2024-09-26), one back market.  The first
\* market expires on day 2, so it is post-maturity from day 2 on.
SUSDE_MARKETS ==
    << [address |-> "0xA", expiry |-> 2],
       [address |-> "0xB", expiry |-> MaxDate + 2],
       [address |-> "0xC", expiry |-> MaxDate + 2],
       [address |-> "0xD", expiry |-> MaxDate + 3] >>

MarketIdx == 1..Len(SUSDE_MARKETS)
Addrs == {SUSDE_MARKETS[i].address : i \in MarketIdx}
AddrRank(a) == CHOOSE i \in MarketIdx : SUSDE_MARKETS[i].address = a

\* What one Pendle history entry can carry (impliedApy, underlyingApy).
Quotes ==
    { [impliedApy |-> 4 * PctPoint, underlyingApy |-> 3 * PctPoint],
      [impliedApy |-> 6 * PctPoint, underlyingApy |-> 5 * PctPoint] }

\* ---------------------------------------------------------------- helpers
RECURSIVE SumSeq(_)
SumSeq(s) == IF s = <<>> THEN 0 ELSE Head(s) + SumSeq(Tail(s))

Max2(a, b) == IF a >= b THEN a ELSE b
Min2(a, b) == IF a <= b THEN a ELSE b

\* Slip: the end index of a slice is taken inclusive.
Slice_inclusive(s, from, to) == SubSeq(s, from + 1, Min2(to + 1, Len(s)))

\* Array.prototype.slice(from, to) on a 0-based array held as a 1-based sequence.
Slice(s, from, to) == SubSeq(s, from + 1, Min2(to, Len(s)))

\* The elements of a set of integers, ascending ([...new Set(xs)].sort()).
RECURSIVE SortedInts(_)
SortedInts(S) ==
    IF S = {} THEN <<>>
    ELSE LET m == CHOOSE x \in S : \A y \in S : x <= y
         IN <<m>> \o SortedInts(S \ {m})

\* function daysBetween(a, b): whole days from a to b.
daysBetween(a, b) == b - a

\* ---------------------------------------------------------------- store
\* Prepared statement upsertSnapshot: insert, or on a (date, market_addr)
\* conflict update the yield columns and days_to_expiry (expiry is left as
\* first inserted).
upsertSnapshot(tbl, p) ==
    LET key == <<p.date, p.marketAddr>>
    IN IF key \in DOMAIN tbl
       THEN [tbl EXCEPT ![key] =
                [@ EXCEPT !.implied_apy = p.impliedApy,
                          !.underlying_apy = p.underlyingApy,
                          !.days_to_expiry = p.daysToExpiry]]
       ELSE [k \in DOMAIN tbl \cup {key} |->
                IF k = key
                THEN [date |-> p.date, market_addr |-> p.marketAddr,
                      expiry |-> p.expiry,
                      implied_apy |-> p.impliedApy,
                      underlying_apy |-> p.underlyingApy,
                      days_to_expiry |-> p.daysToExpiry]
                ELSE tbl[k]]

\* Slip: the ON CONFLICT clause assigns the leg yields crosswise.
upsertTermSpread_crossed(tbl, p) ==
    IF p.date \in DOMAIN tbl
    THEN [tbl EXCEPT ![p.date] =
             [@ EXCEPT !.front_addr = p.frontAddr,
                       !.front_expiry = p.frontExpiry,
                       !.front_implied = p.backImplied,
                       !.back_addr = p.backAddr,
                       !.back_expiry = p.backExpiry,
                       !.back_implied = p.frontImplied,
                       !.term_spread = p.termSpread,
                       !.underlying_apy = p.underlyingApy,
                       !.num_maturities = p.numMaturities]]
    ELSE [d \in DOMAIN tbl \cup {p.date} |->
             IF d = p.date
             THEN [date |-> p.date,
                   front_addr |-> p.frontAddr,
                   front_expiry |-> p.frontExpiry,
                   front_implied |-> p.frontImplied,
                   back_addr |-> p.backAddr,
                   back_expiry |-> p.backExpiry,
                   back_implied |-> p.backImplied,
                   term_spread |-> p.termSpread,
                   term_spread_7dma |-> NULL,
                   underlying_apy |-> p.underlyingApy,
                   num_maturities |-> p.numMaturities]
             ELSE tbl[d]]

\* Prepared statement upsertTermSpread: insert with term_spread_7dma NULL, or
\* on a date conflict update every column but term_spread_7dma.
upsertTermSpread(tbl, p) ==
    IF p.date \in DOMAIN tbl
    THEN [tbl EXCEPT ![p.date] =
             [@ EXCEPT !.front_addr = p.frontAddr,
                       !.front_expiry = p.frontExpiry,
                       !.front_implied = p.frontImplied,
                       !.back_addr = p.backAddr,
                       !.back_expiry = p.backExpiry,
                       !.back_implied = p.backImplied,
                       !.term_spread = p.termSpread,
                       !.underlying_apy = p.underlyingApy,
                       !.num_maturities = p.numMaturities]]
    ELSE [d \in DOMAIN tbl \cup {p.date} |->
             IF d = p.date
             THEN [date |-> p.date,
                   front_addr |-> p.frontAddr,
                   front_expiry |-> p.frontExpiry,
                   front_implied |-> p.frontImplied,
                   back_addr |-> p.backAddr,
                   back_expiry |-> p.backExpiry,
                   back_implied |-> p.backImplied,
                   term_spread |-> p.termSpread,
                   term_spread_7dma |-> NULL,
                   underlying_apy |-> p.underlyingApy,
                   num_maturities |-> p.numMaturities]
             ELSE tbl[d]]

\* Prepared statement updateTermSpread7dma: UPDATE ... WHERE date = @date.
updateTermSpread7dma(tbl, u) ==
    IF u.date \in DOMAIN tbl
    THEN [tbl EXCEPT ![u.date].term_spread_7dma = Some(u.termSpread7dma)]
    ELSE tbl

\* One run of the prepared statement upsertSnapshot with parameters p.
UpsertSnapshot(p) ==
    /\ ingests < MaxUpserts
    /\ daily_snapshots' = upsertSnapshot(daily_snapshots, p)
    /\ supplied' = [k \in DOMAIN supplied \cup {<<p.date, p.marketAddr>>} |->
                       IF k = <<p.date, p.marketAddr>> THEN p ELSE supplied[k]]
    /\ ingests' = ingests + 1
    /\ lastOp' = "upsertSnapshot"
    /\ UNCHANGED <<term_spreads, tieBreak, api,
                   termSpreadsWithBtc, btcPriceMap, lookupVars, syncVars, batch,
                   cls, deciles, volChart, dashboard, other, regimeStats>>

\* ---------------------------------------------------------------- ingestion
\* The histories the Pendle API can return for one market: one entry per
\* day over a run of consecutive days, oldest first (here with one quote
\* throughout a history).
HistoryFrom(from, n) ==
    { [k \in 1..n |-> [timestamp |-> from + k - 1,
                       impliedApy |-> q.impliedApy,
                       underlyingApy |-> q.underlyingApy]] :
        q \in Quotes }

Histories ==
    UNION { HistoryFrom(from, n) : from \in Dates, n \in 0..MaxDate }

PendleResponses ==
    { h \in Histories : \A k \in 1..Len(h) : h[k].timestamp \in Dates }

\* db.transaction(rows => for (e of rows) upsertSnapshot.run({...})) of
\* ingestPendleMarket.
RECURSIVE insertMany(_, _, _)
insertMany(tbl, market, rows) ==
    IF rows = <<>> THEN tbl
    ELSE LET e == Head(rows)
             date == e.timestamp
         IN insertMany(
                upsertSnapshot(tbl,
                    [date |-> date,
                     marketAddr |-> market.address,
                     expiry |-> market.expiry,
                     impliedApy |-> e.impliedApy,
                     underlyingApy |-> e.underlyingApy,
                     daysToExpiry |-> daysBetween(date, market.expiry)]),
                market, Tail(rows))

\* What an entry must carry for its upsert to run: e.timestamp.split throws
\* without a timestamp, and the statement refuses a parameter that is
\* undefined or a NULL for a NOT NULL column.
RequiredOfEntry == {"timestamp", "impliedApy", "underlyingApy"}

Binds(e) == RequiredOfEntry \subseteq DOMAIN e

\* The snapshots table after ingestPendleMarket(market) and the count it
\* returns.  An entry that makes the loop throw ends the transaction, which
\* rolls back what the loop had written; the catch block returns 0.
ingestPendleMarket(tbl, market, ok, results) ==
    LET entries == IF Len(results) > 2
                   THEN Slice(results, 1, Len(results) - 1)
                   ELSE results
    IN IF ~ok \/ Len(results) = 0
       THEN [tbl |-> tbl, count |-> 0]
       ELSE IF \E k \in 1..Len(entries) : ~Binds(entries[k])
       THEN [tbl |-> tbl, count |-> 0]
       ELSE [tbl |-> insertMany(tbl, market, entries), count |-> Len(entries)]

\* ingestPendleMarket(market): the fetch fails (caught, nothing stored) or
\* returns a history; an empty history stores nothing; a history of more
\* than two entries loses its first and last entry; the rest is upserted.
IngestPendleMarket(i, ok, results) ==
    /\ ingests < MaxIngests
    /\ ingests' = ingests + 1
    /\ daily_snapshots' =
           ingestPendleMarket(daily_snapshots, SUSDE_MARKETS[i], ok, results).tbl
    /\ lastOp' = "ingestPendleMarket"
    /\ batch' = Some([market |-> SUSDE_MARKETS[i], ok |-> ok, results |-> results,
                      before |-> daily_snapshots])
    /\ UNCHANGED <<term_spreads, tieBreak, api,
                   termSpreadsWithBtc, btcPriceMap, lookupVars, syncVars, supplied,
                   cls, deciles, volChart, dashboard, other, regimeStats>>

\* ---------------------------------------------------------------- spread engine
\* SELECT ... FROM daily_snapshots WHERE date = ? AND days_to_expiry > 0
\* ORDER BY expiry ASC.  Rows of equal expiry come in the order the engine
\* happens to use, which is fixed for a given database (tieBreak).
TieRank(a) == IF tieBreak = "asc" THEN AddrRank(a) ELSE 0 - AddrRank(a)

RowBefore(r1, r2) ==
    \/ r1.expiry < r2.expiry
    \/ r1.expiry = r2.expiry /\ TieRank(r1.market_addr) <= TieRank(r2.market_addr)

RECURSIVE OrderRows(_)
OrderRows(S) ==
    IF S = {} THEN <<>>
    ELSE LET r == CHOOSE x \in S : \A y \in S : RowBefore(x, y)
         IN <<r>> \o OrderRows(S \ {r})

\* Slip: the days_to_expiry > 0 condition is left out of the query.
LiveSnapshots_all(tbl, date) ==
    OrderRows({ tbl[k] : k \in { k \in DOMAIN tbl : k[1] = date } })

LiveSnapshots(tbl, date) ==
    OrderRows({ tbl[k] : k \in { k \in DOMAIN tbl :
                    k[1] = date /\ tbl[k].days_to_expiry > 0 } })

\* snapshots.filter(s => s.expiry === e)
RECURSIVE FilterExpiry(_, _)
FilterExpiry(snaps, e) ==
    IF snaps = <<>> THEN <<>>
    ELSE IF Head(snaps).expiry = e
         THEN <<Head(snaps)>> \o FilterExpiry(Tail(snaps), e)
         ELSE FilterExpiry(Tail(snaps), e)

\* snaps.reduce((sum, s) => sum + s.implied_apy, 0)
RECURSIVE SumImplied(_)
SumImplied(snaps) ==
    IF snaps = <<>> THEN 0
    ELSE Head(snaps).implied_apy + SumImplied(Tail(snaps))

\* Slip: the leg takes its first instrument's yield instead of the mean.
MeanImplied_first(snaps) == snaps[1].implied_apy

\* snaps.reduce(...) / snaps.length
MeanImplied(snaps) == SumImplied(snaps) \div Len(snaps)

\* The body of the loop of computeTermSpreads for one date.
SpreadForDate(tbl, spreads, date) ==
    LET snapshots == LiveSnapshots(tbl, date)
        uniqueExpiries ==
            SortedInts({ snapshots[k].expiry : k \in 1..Len(snapshots) })
    IN IF Len(snapshots) = 0 THEN spreads
       ELSE IF Len(uniqueExpiries) >= 2
       THEN LET frontExpiry == uniqueExpiries[1]
                backExpiry == uniqueExpiries[Len(uniqueExpiries)]
                frontSnaps == FilterExpiry(snapshots, frontExpiry)
                backSnaps == FilterExpiry(snapshots, backExpiry)
                frontImplied == MeanImplied(frontSnaps)
                backImplied == MeanImplied(backSnaps)
                termSpread == backImplied - frontImplied
                underlyingApy == frontSnaps[1].underlying_apy
            IN upsertTermSpread(spreads,
                   [date |-> date,
                    frontAddr |-> frontSnaps[1].market_addr,
                    frontExpiry |-> frontExpiry,
                    frontImplied |-> frontImplied,
                    backAddr |-> backSnaps[1].market_addr,
                    backExpiry |-> backExpiry,
                    backImplied |-> backImplied,
                    termSpread |-> termSpread,
                    underlyingApy |-> underlyingApy,
                    numMaturities |-> Len(uniqueExpiries)])
       ELSE LET snap == snapshots[1]
            IN upsertTermSpread(spreads,
                   [date |-> date,
                    frontAddr |-> snap.market_addr,
                    frontExpiry |-> snap.expiry,
                    frontImplied |-> snap.implied_apy,
                    backAddr |-> snap.market_addr,
                    backExpiry |-> snap.expiry,
                    backImplied |-> snap.implied_apy,
                    termSpread |-> 0,
                    underlyingApy |-> snap.underlying_apy,
                    numMaturities |-> 1])

\* Slip: only dates with two or more expiries are processed (the query's
\* earlier form, with HAVING num_expiries >= 2).
SnapshotDates_multi(tbl) ==
    SortedInts({ d \in { k[1] : k \in DOMAIN tbl } :
        Cardinality({ tbl[k].expiry : k \in { k \in DOMAIN tbl : k[1] = d } }) >= 2 })

\* SELECT date ... FROM daily_snapshots GROUP BY date ORDER BY date
SnapshotDates(tbl) == SortedInts({ k[1] : k \in DOMAIN tbl })

RECURSIVE computeMany(_, _, _)
computeMany(tbl, spreads, datesToProcess) ==
    IF datesToProcess = <<>> THEN spreads
    ELSE computeMany(tbl,
                     SpreadForDate(tbl, spreads, Head(datesToProcess)),
                     Tail(datesToProcess))

\* Slip: a date that has a spread record is not computed again.
computeTermSpreads_skipExisting(tbl, spreads) ==
    computeMany(tbl, spreads,
                SelectSeq(SnapshotDates(tbl), LAMBDA d : d \notin DOMAIN spreads))

\* The term_spreads table after computeTermSpreads().
computeTermSpreads(tbl, spreads) ==
    computeMany(tbl, spreads, SnapshotDates(tbl))

\* computeTermSpreads()
ComputeTermSpreads ==
    /\ term_spreads' = computeTermSpreads(daily_snapshots, term_spreads)
    /\ lastOp' = "computeTermSpreads"
    /\ UNCHANGED <<daily_snapshots, tieBreak, ingests, api,
                   termSpreadsWithBtc, btcPriceMap, lookupVars, syncVars, supplied, batch, cls, deciles,
                   volChart, dashboard, other, regimeStats>>

\* The store comes to return rows that tie in ORDER BY expiry in the other
\* order (SQL leaves the order of ties open; it changes with the query plan).
Reorder ==
    /\ tieBreak' = IF tieBreak = "asc" THEN "desc" ELSE "asc"
    /\ UNCHANGED <<daily_snapshots, term_spreads, ingests, lastOp, api,
                   termSpreadsWithBtc, btcPriceMap, lookupVars, syncVars,
                   supplied, batch, cls, deciles, volChart, dashboard, other,
                   regimeStats>>

\* ---------------------------------------------------------------- smoothing
\* SELECT date, term_spread FROM term_spreads ORDER BY date ASC
SpreadRows(tbl) ==
    LET ds == SortedInts(DOMAIN tbl)
    IN [k \in 1..Len(ds) |-> [date |-> ds[k], term_spread |-> tbl[ds[k]].term_spread]]

\* Slip: the window reaches back seven entries, eight points in all.
WindowAvg_eight(rows, i) ==
    LET windowStart == Max2(0, i - 7)
        window == Slice(rows, windowStart, i + 1)
    IN SumSeq([k \in 1..Len(window) |-> window[k].term_spread]) \div Len(window)

\* rows.slice(windowStart, i + 1).reduce(...) / window.length, i 0-based
WindowAvg(rows, i) ==
    LET windowStart == Max2(0, i - 6)
        window == Slice(rows, windowStart, i + 1)
    IN SumSeq([k \in 1..Len(window) |-> window[k].term_spread]) \div Len(window)

RECURSIVE updateMany(_, _)
updateMany(tbl, updates) ==
    IF updates = <<>> THEN tbl
    ELSE updateMany(updateTermSpread7dma(tbl, Head(updates)), Tail(updates))

\* Slip: only the records that have no smoothed value yet are smoothed.
compute7DayMA_onlyMissing(spreads) ==
    LET rows == SpreadRows(spreads)
        updates == [k \in 1..Len(rows) |->
                       [date |-> rows[k].date,
                        termSpread7dma |->
                            IF spreads[rows[k].date].term_spread_7dma # NULL
                            THEN spreads[rows[k].date].term_spread_7dma[1]
                            ELSE WindowAvg(rows, k - 1)]]
    IN IF Len(rows) = 0 THEN spreads
       ELSE updateMany(spreads, updates)

\* Slip: the smoothing is put off past the next await, so the table is left
\* as computeTermSpreads wrote it.
compute7DayMA_putOff(spreads) == spreads

\* The term_spreads table after compute7DayMA().
compute7DayMA(spreads) ==
    LET rows == SpreadRows(spreads)
        updates == [k \in 1..Len(rows) |->
                       [date |-> rows[k].date,
                        termSpread7dma |-> WindowAvg(rows, k - 1)]]
    IN IF Len(rows) = 0 THEN spreads
       ELSE updateMany(spreads, updates)

\* compute7DayMA()
Compute7DayMA ==
    /\ term_spreads' = compute7DayMA(term_spreads)
    /\ lastOp' = "compute7DayMA"
    /\ UNCHANGED <<daily_snapshots, tieBreak, ingests, api,
                   termSpreadsWithBtc, btcPriceMap, lookupVars, syncVars, supplied, batch, cls, deciles,
                   volChart, dashboard, other, regimeStats>>

\* ---------------------------------------------------------------- classifier
\* interpretTermSpread(spreadPct, spreadType).  spreadPct is in percentage
\* points, held in units of 1/PctPoint of a point; the result carries
\* spreadValue in hundredths of a point and probPositive90d in tenths.
SpreadTypes == {"term_spread_7dma", "term_spread", "single_maturity"}

\* Math.round(x * per) with x in units of 1/PctPoint: the nearest integer,
\* halves upwards.
RoundScaled(x, per) == (2 * per * x + PctPoint) \div (2 * PctPoint)

\* Slip: the steep-contango threshold is taken inclusive.
ShapeOf_inclusive(spreadPct) ==
    IF spreadPct >= 2 * PctPoint THEN "STEEP CONTANGO"
    ELSE IF 2 * spreadPct > PctPoint THEN "CONTANGO"
    ELSE IF 2 * spreadPct > 0 - PctPoint THEN "FLAT"
    ELSE IF spreadPct > 0 - 5 * PctPoint THEN "BACKWARDATION"
    ELSE "STEEP BACKWARDATION"

\* if (spreadPct > 2) ... else if (spreadPct > 0.5) ... (shape chain)
ShapeOf(spreadPct) ==
    IF spreadPct > 2 * PctPoint THEN "STEEP CONTANGO"
    ELSE IF 2 * spreadPct > PctPoint THEN "CONTANGO"
    ELSE IF 2 * spreadPct > 0 - PctPoint THEN "FLAT"
    ELSE IF spreadPct > 0 - 5 * PctPoint THEN "BACKWARDATION"
    ELSE "STEEP BACKWARDATION"

\* if (spreadPct > 2) ... else if (spreadPct > 0.5) ... (regime chain)
RegimeOf(spreadPct) ==
    IF spreadPct > 2 * PctPoint THEN "STRONGLY BULLISH"
    ELSE IF 2 * spreadPct > PctPoint THEN "BULLISH"
    ELSE IF 2 * spreadPct > 0 - PctPoint THEN "NEUTRAL"
    ELSE IF spreadPct > 0 - 5 * PctPoint THEN "MILDLY BEARISH"
    ELSE "BEARISH"

\* Slip: the probability is clamped to [0, 100] instead of [5, 95].
ProbPositive_wide(spreadPct) ==
    Max2(0, Min2(100 * PctPoint, 50 * PctPoint + spreadPct * 8))

\* Math.max(5, Math.min(95, 50 + spreadPct * 8)), in units of 1/PctPoint
ProbPositive(spreadPct) ==
    Max2(5 * PctPoint, Min2(95 * PctPoint, 50 * PctPoint + spreadPct * 8))

\* Slip: the single-maturity case is not told apart.
interpretTermSpread_noSingle(spreadPct, spreadType) ==
    [shape |-> ShapeOf(spreadPct),
     regime |-> RegimeOf(spreadPct),
     spreadValue |-> RoundScaled(spreadPct, 100),
     spreadType |-> spreadType,
     probPositive90d |-> RoundScaled(ProbPositive(spreadPct), 10)]

interpretTermSpread(spreadPct, spreadType) ==
    IF spreadType = "single_maturity"
    THEN [shape |-> "SINGLE MATURITY",
          regime |-> "NO SIGNAL",
          spreadValue |-> 0,
          spreadType |-> "single_maturity",
          probPositive90d |-> 50 * 10]
    ELSE [shape |-> ShapeOf(spreadPct),
          regime |-> RegimeOf(spreadPct),
          spreadValue |-> RoundScaled(spreadPct, 100),
          spreadType |-> spreadType,
          probPositive90d |-> RoundScaled(ProbPositive(spreadPct), 10)]

\* One call of interpretTermSpread on the drawn input.
InterpretTermSpread ==
    /\ cls.result = NULL
    /\ cls.spreadType \in SpreadTypes
    /\ cls' = [cls EXCEPT !.result =
                  Some(interpretTermSpread(cls.spreadPct, cls.spreadType))]
    /\ lastOp' = "interpretTermSpread"
    /\ UNCHANGED <<daily_snapshots, term_spreads, tieBreak, ingests, api,
                   termSpreadsWithBtc, btcPriceMap, lookupVars, syncVars, supplied, batch, deciles,
                   volChart, dashboard, other, regimeStats>>

\* Nothing classified: spreadValue is null and curve is null.
NoClass == [spreadPct |-> 0, spreadType |-> "none", result |-> NULL]

\* The record the dashboard classifies: data.termStructure.termSpread of the
\* answer of /api/term-structure it has loaded, a record or NULL.
latestSpread(response) == response[1].body.termSpread

\* Slip: the raw spread is classified even when a smoothed value exists.
CurveInput_raw(latest) ==
    IF latest[1].num_maturities >= 2
    THEN [spreadValue |-> latest[1].term_spread, spreadType |-> "term_spread"]
    ELSE [spreadValue |-> 0, spreadType |-> "single_maturity"]

\* spreadValue and spreadType of the dashboard, by priority: 7dma, raw
\* spread, single maturity.  A stored spread is a fraction in YieldOne
\* units; times 100 it is a number of points, which in units of 1/PctPoint
\* of a point is the same integer.
CurveInput(latest) ==
    LET hasMultiMaturity == latest[1].num_maturities >= 2
        has7dma == latest[1].term_spread_7dma # NULL
    IN IF hasMultiMaturity /\ has7dma
       THEN [spreadValue |-> (latest[1].term_spread_7dma[1] * 100 * PctPoint) \div YieldOne,
             spreadType |-> "term_spread_7dma"]
       ELSE IF hasMultiMaturity
       THEN [spreadValue |-> (latest[1].term_spread * 100 * PctPoint) \div YieldOne,
             spreadType |-> "term_spread"]
       ELSE [spreadValue |-> 0, spreadType |-> "single_maturity"]

\* The dashboard renders the data it has loaded: curve is the
\* classification of latestSpread, or null when there is no such record.
ClassifyLatest ==
    /\ api # NULL
    /\ lastOp # "curve"
    /\ LET latest == latestSpread(api)
           in == CurveInput(latest)
       IN cls' = IF latest = NULL
                 THEN NoClass
                 ELSE [spreadPct |-> in.spreadValue,
                       spreadType |-> in.spreadType,
                       result |-> Some(interpretTermSpread(in.spreadValue,
                                                           in.spreadType))]
    /\ lastOp' = "curve"
    /\ UNCHANGED <<daily_snapshots, term_spreads, tieBreak, ingests, api,
                   termSpreadsWithBtc, btcPriceMap, lookupVars, syncVars,
                   supplied, batch, deciles, volChart, dashboard, other, regimeStats>>

\* ---------------------------------------------------------------- API
\* Slip: the nearest date with data is taken, earlier or later.
ClosestDate_nearest(tbl, date) ==
    LET have == { k[1] : k \in DOMAIN tbl }
        Dist(d) == IF d >= date THEN d - date ELSE date - d
    IN IF have = {} THEN NULL
       ELSE Some(CHOOSE d \in have :
                \A e \in have : Dist(d) < Dist(e) \/ (Dist(d) = Dist(e) /\ d >= e))

\* SELECT date FROM daily_snapshots WHERE date <= ? ORDER BY date DESC LIMIT 1
ClosestDate(tbl, date) ==
    LET have == { d \in { k[1] : k \in DOMAIN tbl } : d <= date }
    IN IF have = {} THEN NULL
       ELSE Some(CHOOSE d \in have : \A e \in have : e <= d)

\* SELECT expiry, market_addr, AVG(implied_apy), AVG(underlying_apy),
\* days_to_expiry FROM daily_snapshots WHERE date = ? GROUP BY expiry
\* ORDER BY expiry ASC.  The bare columns come from one row of the group.
MaturityGroups(tbl, date) ==
    LET rows == { tbl[k] : k \in { k \in DOMAIN tbl : k[1] = date } }
        expiries == SortedInts({ r.expiry : r \in rows })
        Group(e) == OrderRows({ r \in rows : r.expiry = e })
    IN [n \in 1..Len(expiries) |->
           LET g == Group(expiries[n])
           IN [expiry |-> expiries[n],
               market_addr |-> g[1].market_addr,
               implied_apy |-> MeanImplied(g),
               underlying_apy |->
                   SumSeq([k \in 1..Len(g) |-> g[k].underlying_apy]) \div Len(g),
               days_to_expiry |-> g[1].days_to_expiry]]

\* The body of the answer of /api/term-structure for a date.
termStructure(snapshots, spreads, date) ==
    LET closestDate == ClosestDate(snapshots, date)
    IN IF closestDate = NULL
       THEN [date |-> date, maturities |-> <<>>, termSpread |-> NULL]
       ELSE [date |-> closestDate[1],
             maturities |-> MaturityGroups(snapshots, closestDate[1]),
             termSpread |->
                 IF closestDate[1] \in DOMAIN spreads
                 THEN Some(spreads[closestDate[1]])
                 ELSE NULL]

\* app.get("/api/term-structure"): the request carries a date (or today).
GetTermStructure(date) ==
    /\ api' = Some([request |-> date,
                    status |-> 200,
                    body |-> termStructure(daily_snapshots, term_spreads, date)])
    /\ lastOp' = "getTermStructure"
    /\ UNCHANGED <<daily_snapshots, term_spreads, tieBreak, ingests,
                   termSpreadsWithBtc, btcPriceMap,
                   lookupVars, syncVars, supplied, batch, cls, deciles, volChart,
                   dashboard, other, regimeStats>>

\* SELECT * FROM term_spreads WHERE 1=1 [AND date >= from] [AND date <= to]
\* ORDER BY date ASC; a bound the request leaves out is NULL.
termSpreadRows(spreads, from, to) ==
    LET dates == SortedInts({ d \in DOMAIN spreads :
                                /\ from # NULL => d >= from[1]
                                /\ to # NULL => d <= to[1] })
    IN [k \in 1..Len(dates) |-> spreads[dates[k]]]

\* app.get("/api/term-spreads"): the handler runs between two steps of
\* whatever fullSync is in progress.
GetTermSpreads(from, to) ==
    /\ api' = Some([request |-> <<from, to>>,
                    status |-> 200,
                    body |-> termSpreadRows(term_spreads, from, to)])
    /\ lastOp' = "getTermSpreads"
    /\ UNCHANGED <<daily_snapshots, term_spreads, tieBreak, ingests,
                   termSpreadsWithBtc, btcPriceMap,
                   lookupVars, syncVars, supplied, batch, cls, deciles, volChart,
                   dashboard, other, regimeStats>>

\* app.get("/api/term-spreads/with-btc"): term_spreads LEFT JOIN btc_prices
\* LEFT JOIN defillama_apy ON date, ORDER BY date ASC.
termSpreadsWithBtcRows(spreads, prices, apys) ==
    LET dates == SortedInts(DOMAIN spreads)
    IN [k \in 1..Len(dates) |->
           LET ts == spreads[dates[k]]
           IN [date |-> ts.date,
               term_spread |-> ts.term_spread,
               term_spread_7dma |-> ts.term_spread_7dma,
               num_maturities |-> ts.num_maturities,
               btc_price |-> IF ts.date \in DOMAIN prices
                             THEN Some(prices[ts.date]) ELSE NULL,
               defillama_apy |-> IF ts.date \in DOMAIN apys
                                 THEN Some(apys[ts.date]) ELSE NULL]]

\* app.get("/api/defillama"): SELECT * FROM defillama_apy ORDER BY date ASC
defiLlamaRows(apys) ==
    LET dates == SortedInts(DOMAIN apys)
    IN [k \in 1..Len(dates) |-> [date |-> dates[k], apy |-> apys[dates[k]]]]

\* ---------------------------------------------------------------- loadData
\* The feeds of fetchAllDashboardData that the claims are about (of nine).
DashboardFeeds == {"termStructure", "termSpreadsWithBtc", "defiLlama"}

\* The date "" of the term structure put in place of a failed fetch (dates
\* are day numbers from 0 on).
BlankDate == 0 - 1

\* res.status === "fulfilled" ? res.value : <default>
Settled(fulfilled, value, default) == IF fulfilled THEN value ELSE default

\* fetchAllDashboardData(): Promise.allSettled over the fetches; a rejected
\* fetch is replaced by an empty value.  answers are the bodies the server
\* sends, rejected the feeds whose fetch fails.
fetchAllDashboardData(answers, rejected) ==
    [termStructure |->
         Settled("termStructure" \notin rejected, answers.termStructure,
                 [date |-> BlankDate, maturities |-> <<>>, termSpread |-> NULL]),
     termSpreadsWithBtc |->
         Settled("termSpreadsWithBtc" \notin rejected, answers.termSpreadsWithBtc, <<>>),
     defiLlama |->
         Settled("defiLlama" \notin rejected, answers.defiLlama, <<>>)]

\* The messages loadData hands to setErrors, in order.
loadErrors(result) ==
    (IF Len(result.termStructure.maturities) = 0
     THEN <<"No term structure data available">> ELSE <<>>)
    \o (IF Len(result.termSpreadsWithBtc) = 0
        THEN <<"No term spread history available">> ELSE <<>>)
    \o (IF Len(result.defiLlama) = 0
        THEN <<"Failed to fetch DefiLlama history">> ELSE <<>>)

\* What the dashboard holds after loadData: data and errors.
loadData(answers, rejected) ==
    LET result == fetchAllDashboardData(answers, rejected)
    IN [data |-> result, errors |-> loadErrors(result)]

\* What the server answers to the dashboard's requests now.
ServerAnswers ==
    [termStructure |-> termStructure(daily_snapshots, term_spreads, today),
     termSpreadsWithBtc |-> termSpreadsWithBtcRows(term_spreads, btc_prices, defillama_apy),
     defiLlama |-> defiLlamaRows(defillama_apy)]

\* loadData() runs (on mount and every REFRESH_INTERVAL_MS); the fetches of
\* the feeds in rejected fail.
LoadData(rejected) ==
    /\ dashboard' = Some([loaded |-> loadData(ServerAnswers, rejected),
                          rejected |-> rejected])
    /\ lastOp' = "loadData"
    /\ UNCHANGED <<daily_snapshots, term_spreads, tieBreak, ingests, api,
                   termSpreadsWithBtc, btcPriceMap, lookupVars, syncVars,
                   supplied, batch, volChart, cls, deciles, other, regimeStats>>

\* ---------------------------------------------------------------- deciles
\* computeDeciles(spreadsWithBtc, btcPriceMap).  Spreads and averages are in
\* YieldOne units; forward returns are percentages in units of 1/DecUnit.
\* DecUnit is a multiple of every bin size up to 12 and of the price ratios
\* drawn, so the means are exact.
DecUnit == 33 * PctPoint

\* [...spreadsWithBtc].sort((a, b) => a.term_spread - b.term_spread): stable.
RECURSIVE InsertBySpread(_, _)
InsertBySpread(sorted, r) ==
    IF sorted = <<>> THEN <<r>>
    ELSE IF sorted[Len(sorted)].term_spread <= r.term_spread
         THEN Append(sorted, r)
         ELSE Append(InsertBySpread(SubSeq(sorted, 1, Len(sorted) - 1), r),
                     sorted[Len(sorted)])

\* Slip: the observations are binned in the order received.
SortBySpread_unsorted(rows) == rows

RECURSIVE SortBySpread(_)
SortBySpread(rows) ==
    IF rows = <<>> THEN <<>>
    ELSE InsertBySpread(SortBySpread(SubSeq(rows, 1, Len(rows) - 1)), rows[Len(rows)])

\* Host time zones.  A zone is its offset from UTC in hours before and after
\* one change of offset, which happens at 02:00 local time of day switch.
UtcZone == [before |-> 0, after |-> 0, switch |-> 0]

\* UTC, a fixed offset east of UTC, and a zone west of UTC whose clocks go
\* forward (or back) one hour on one of the given days.
TimeZones(switchDays) ==
    {UtcZone, [before |-> 9, after |-> 9, switch |-> 0]}
        \cup { [before |-> 0 - 5, after |-> 0 - 4, switch |-> s] : s \in switchDays }
        \cup { [before |-> 0 - 4, after |-> 0 - 5, switch |-> s] : s \in switchDays }

\* The offset in force at the UTC instant t (hours since day 0, 00:00Z).
OffsetAt(zone, t) ==
    IF t + zone.before < 24 * zone.switch + 2 THEN zone.before ELSE zone.after

\* The UTC instant of the local wall-clock time w (hours).
LocalToUtc(zone, w) ==
    IF w < 24 * zone.switch + 2 THEN w - zone.before ELSE w - zone.after

\* const nd = new Date(dateStr); nd.setDate(nd.getDate() + k);
\* nd.toISOString().split("T")[0].  A date-only string is parsed as midnight
\* UTC, setDate moves the local calendar day keeping the local time of day,
\* and toISOString prints the UTC day.
addDays(date, k) ==
    LET t == 24 * date
        w == t + OffsetAt(timeZone, t)
    IN LocalToUtc(timeZone, w + 24 * k) \div 24

\* btcPriceMap.get(key): the price, or NULL
PriceAt(priceMap, key) ==
    IF key \in DOMAIN priceMap THEN Some(priceMap[key]) ELSE NULL

\* The probes of findBtcPrice after the exact date, in the order of its two
\* loops: offset 1..3, direction +1 then -1.
ProbeOffsets == << 1, 0 - 1, 2, 0 - 2, 3, 0 - 3 >>

RECURSIVE FirstPrice(_, _, _)
FirstPrice(priceMap, date, offsets) ==
    IF offsets = <<>> THEN NULL
    ELSE LET price == PriceAt(priceMap, addDays(date, Head(offsets)))
         IN IF price # NULL THEN price
            ELSE FirstPrice(priceMap, date, Tail(offsets))

\* findBtcPrice(dateStr) of computeDeciles
findBtcPrice(priceMap, date) ==
    LET exact == PriceAt(priceMap, date)
    IN IF exact # NULL THEN exact
       ELSE FirstPrice(priceMap, date, ProbeOffsets)

\* Slip: a member without a price 90 days on counts with a return of zero.
RECURSIVE ForwardReturns_zeroFill(_, _)
ForwardReturns_zeroFill(priceMap, slice) ==
    IF slice = <<>> THEN <<>>
    ELSE LET row == Head(slice)
             currentPrice == IF row.btc_price # NULL THEN row.btc_price
                             ELSE findBtcPrice(priceMap, row.date)
             rest == ForwardReturns_zeroFill(priceMap, Tail(slice))
         IN IF currentPrice = NULL THEN rest
            ELSE IF currentPrice[1] <= 0 THEN rest
            ELSE LET futurePrice == findBtcPrice(priceMap, addDays(row.date, 90))
                 IN IF futurePrice # NULL
                    THEN <<((futurePrice[1] - currentPrice[1]) * 100 * DecUnit)
                              \div currentPrice[1]>> \o rest
                    ELSE <<0>> \o rest

\* The returns pushed for the rows of one slice, in order.
RECURSIVE ForwardReturns(_, _)
ForwardReturns(priceMap, slice) ==
    IF slice = <<>> THEN <<>>
    ELSE LET row == Head(slice)
             currentPrice == IF row.btc_price # NULL THEN row.btc_price
                             ELSE findBtcPrice(priceMap, row.date)
             rest == ForwardReturns(priceMap, Tail(slice))
         IN IF currentPrice = NULL THEN rest
            ELSE IF currentPrice[1] <= 0 THEN rest
            ELSE LET futurePrice == findBtcPrice(priceMap, addDays(row.date, 90))
                 IN IF futurePrice # NULL
                    THEN <<((futurePrice[1] - currentPrice[1]) * 100 * DecUnit)
                              \div currentPrice[1]>> \o rest
                    ELSE rest

\* One call of findBtcPrice on the dashboard's price map.
FindBtcPrice(date) ==
    /\ lookup = NULL
    /\ lookup' = Some([date |-> date, price |-> findBtcPrice(btcPriceMap, date)])
    /\ lastOp' = "findBtcPrice"
    /\ UNCHANGED <<daily_snapshots, term_spreads, tieBreak, ingests, api,
                   termSpreadsWithBtc, btcPriceMap, timeZone, syncVars,
                   supplied, batch, cls, deciles, volChart, dashboard, other,
                   regimeStats>>

\* Slip: the bin size is rounded up.
DecileSize_ceil(n) == (n + 9) \div 10

\* Math.floor(n / 10)
DecileSize(n) == n \div 10

\* The row pushed for decile d (0..9).
DecileRow(priceMap, sorted, d) ==
    LET n == Len(sorted)
        decileSize == DecileSize(n)
        start == d * decileSize
        end == IF d = 9 THEN n ELSE (d + 1) * decileSize
        slice == Slice(sorted, start, end)
        returns == ForwardReturns(priceMap, slice)
    IN [decile |-> d + 1,
        members |-> slice,
        count |-> Len(slice),
        avgSpread |->
            IF Len(slice) = 0 THEN NULL
            ELSE Some(SumSeq([k \in 1..Len(slice) |-> slice[k].term_spread])
                          \div Len(slice)),
        avgBtcReturn90d |->
            IF Len(returns) > 0 THEN Some(SumSeq(returns) \div Len(returns))
            ELSE NULL]

computeDeciles(spreadsWithBtc, priceMap) ==
    IF Len(spreadsWithBtc) < 20 THEN <<>>
    ELSE LET sorted == SortBySpread(spreadsWithBtc)
         IN [k \in 1..10 |-> DecileRow(priceMap, sorted, k - 1)]

\* The dashboard computes the decile table from its data.
ComputeDeciles ==
    /\ deciles = NULL
    /\ deciles' = Some(computeDeciles(termSpreadsWithBtc, btcPriceMap))
    /\ lastOp' = "computeDeciles"
    /\ UNCHANGED <<daily_snapshots, term_spreads, tieBreak, ingests, api,
                   termSpreadsWithBtc, btcPriceMap, lookupVars, syncVars, supplied, batch, cls,
                   volChart, dashboard, other, regimeStats>>

\* ---------------------------------------------------------------- volatility chart
\* data.termSpreadsWithBtc.map(r => ({ ...r, btc: r.btc_price ??
\* btcPriceMap.get(r.date) ?? null })).filter(r => r.btc != null)
VolRows(series, priceMap) ==
    LET btcOf(r) == IF r.btc_price # NULL THEN r.btc_price
                    ELSE PriceAt(priceMap, r.date)
        enriched == [k \in 1..Len(series) |->
                        [date |-> series[k].date,
                         term_spread |-> series[k].term_spread,
                         term_spread_7dma |-> series[k].term_spread_7dma,
                         btc |-> btcOf(series[k])]]
        kept == SelectSeq(enriched, LAMBDA r : r.btc # NULL)
    IN [k \in 1..Len(kept) |-> [kept[k] EXCEPT !.btc = kept[k].btc[1]]]

\* Slip: the window is taken to be there one entry early.
HasWindow_early(i) == i >= 29

\* if (i >= 30): the entry at index i (0-based) has a trailing window
HasWindow(i) == i >= 30

\* The pairs of prices whose log return is pushed for the entry at index i
\* (0-based): j = i-29 .. i, when rows[j].btc and rows[j-1]?.btc are truthy.
RECURSIVE WindowReturns(_, _, _)
WindowReturns(rows, j, i) ==
    IF j > i THEN <<>>
    ELSE LET prev == IF j >= 1 THEN rows[j].btc ELSE 0
             cur == rows[j + 1].btc
         IN (IF cur # 0 /\ prev # 0 THEN << <<prev, cur>> >> ELSE <<>>)
                \o WindowReturns(rows, j + 1, i)

\* The volatility of the entry at index i (0-based): null, or the annualized
\* standard deviation of the log returns pushed, kept here as the number of
\* returns it is taken over and whether it is zero (all returns equal).
vol30d(rows, i) ==
    IF ~HasWindow(i) THEN NULL
    ELSE LET returns == WindowReturns(rows, i - 29, i)
         IN IF Len(returns) > 5
            THEN Some([n |-> Len(returns),
                       zero |-> \A a, b \in 1..Len(returns) :
                                   returns[a][2] * returns[b][1]
                                       = returns[b][2] * returns[a][1]])
            ELSE NULL

\* The data of the "Term Spread as Volatility Predictor" chart.
volSeries(series, priceMap) ==
    LET rows == VolRows(series, priceMap)
    IN [k \in 1..Len(rows) |->
           [date |-> rows[k].date,
            spread7dma |-> IF rows[k].term_spread_7dma # NULL
                           THEN rows[k].term_spread_7dma[1] * 100
                           ELSE rows[k].term_spread * 100,
            vol30d |-> vol30d(rows, k - 1)]]

\* The dashboard renders the chart from its data.
RenderVolChart ==
    /\ volChart = NULL
    /\ volChart' = Some(volSeries(termSpreadsWithBtc, btcPriceMap))
    /\ lastOp' = "volChart"
    /\ UNCHANGED <<daily_snapshots, term_spreads, tieBreak, ingests, api,
                   termSpreadsWithBtc, btcPriceMap, lookupVars, syncVars,
                   supplied, batch, cls, deciles, dashboard, other, regimeStats>>

\* ---------------------------------------------------------------- regime statistics
\* The five rows of the Regime Statistics panel, named by the shape their
\* label stands for: "Steep Contango (>+2%)", "Contango (+0.5% to +2%)",
\* "Flat (+-0.5%)", "Backwardation (-0.5% to -5%)", "Steep Backwardation (<-5%)".
RegimeBuckets ==
    {"STEEP CONTANGO", "CONTANGO", "FLAT", "BACKWARDATION", "STEEP BACKWARDATION"}

\* The filter of each row on s = r.term_spread * 100, in units of 1/PctPoint
\* of a point: > 2; > 0.5 && <= 2; >= -0.5 && <= 0.5 (spreadStats.flat);
\* >= -5 && < -0.5; < -5.
InBucket(bucket, s) ==
    CASE bucket = "STEEP CONTANGO" -> s > 2 * PctPoint
      [] bucket = "CONTANGO" -> 2 * s > PctPoint /\ s <= 2 * PctPoint
      [] bucket = "FLAT" -> 2 * s >= 0 - PctPoint /\ 2 * s <= PctPoint
      [] bucket = "BACKWARDATION" -> s >= 0 - 5 * PctPoint /\ 2 * s < 0 - PctPoint
      [] bucket = "STEEP BACKWARDATION" -> s < 0 - 5 * PctPoint

\* For each row the observations its filter keeps (by index) and
\* spreadStats.total; the row shows kept.length / total * 100.
regimeStatistics(rows) ==
    [total |-> Len(rows),
     kept |-> [b \in RegimeBuckets |->
                  { k \in 1..Len(rows) : InBucket(b, rows[k].term_spread) }]]

\* The panel is rendered from the loaded series; without observations
\* spreadStats is null and no row is drawn.
RenderRegimeStatistics ==
    /\ regimeStats = NULL
    /\ Len(termSpreadsWithBtc) > 0
    /\ regimeStats' = Some(regimeStatistics(termSpreadsWithBtc))
    /\ lastOp' = "regimeStatistics"
    /\ UNCHANGED <<daily_snapshots, term_spreads, tieBreak, ingests, api,
                   termSpreadsWithBtc, btcPriceMap, lookupVars, syncVars, supplied,
                   batch, volChart, dashboard, other, cls, deciles>>

\* ---------------------------------------------------------------- fullSync
\* fullSync() is an async function: it runs from one await of a fetch to the
\* next, so each action below is the code between two fetches.  A fetch is
\* named <<source, n>>: the Pendle history of market n, the DefiLlama chart,
\* the recent CoinGecko chart (n = 0), the CoinGecko range n, the Ethena
\* yields.
backfillRanges == << [from |-> 1, to |-> 2], [from |-> 3, to |-> 4] >>

Fetches ==
    { <<"pendle", i>> : i \in MarketIdx }
        \cup { <<"defillama", 0>>, <<"coingecko", 0>>, <<"ethena", 0>> }
        \cup { <<"coingecko", r>> : r \in 1..Len(backfillRanges) }

NoFeeds == [down |-> {}, quote |-> 0]

SyncIdle ==
    [pc |-> "idle", idx |-> 0, runs |-> 0, attempted |-> {}, total |-> 0,
     computed |-> FALSE, day |-> 0, prev |-> NULL]

\* What the sources answer while they are up.  Pendle: for market i a
\* history of MaxDate + 2 daily entries from day 0 on, the quote alternating
\* from market to market.
PendleFeed(i) ==
    LET qs == SortedInts({ q.impliedApy : q \in Quotes })
        pick == qs[1 + ((i + feeds.quote) % Len(qs))]
        q == CHOOSE x \in Quotes : x.impliedApy = pick
    IN [k \in 1..(MaxDate + 2) |->
           [timestamp |-> k - 1,
            impliedApy |-> q.impliedApy,
            underlyingApy |-> q.underlyingApy]]

\* DefiLlama: { data: [{ timestamp, apy }] } for the days 1..MaxDate
DefiLlamaFeed ==
    [k \in 1..MaxDate |-> [timestamp |-> k, apy |-> (3 + feeds.quote) * PctPoint]]

\* CoinGecko: { prices: [[ts, price]] } for the days from..to
CoinGeckoFeed(from, to) ==
    [k \in 1..(to - from + 1) |-> <<from + k - 1, 100 * (1 + ((from + k) % 3))>>]

\* Ethena: the current staking yield, with no date in the answer
EthenaFeed == (5 + feeds.quote) * PctPoint

\* Whether an error thrown in the try block of an ingest function leaves
\* the function: every fetch and its writes sit in try { } catch { return 0 }.
Propagates_uncaught(thrown) == thrown

Propagates(thrown) == FALSE

\* insertSyncLog.run({ source, records, status, error })
insertSyncLog(log, source, records, status) ==
    Append(log, [source |-> source, records |-> records, status |-> status])

\* Slip: on a date conflict the new apy is added to the stored one.
RECURSIVE upsertDefiLlamaApyMany_accumulate(_, _)
upsertDefiLlamaApyMany_accumulate(tbl, rows) ==
    IF rows = <<>> THEN tbl
    ELSE LET e == Head(rows)
         IN upsertDefiLlamaApyMany_accumulate(
                [d \in DOMAIN tbl \cup {e.timestamp} |->
                    IF d # e.timestamp THEN tbl[d]
                    ELSE IF d \in DOMAIN tbl THEN tbl[d] + e.apy
                    ELSE e.apy],
                Tail(rows))

\* db.transaction(rows => for (e of rows) upsertDefiLlamaApy.run(...))
RECURSIVE upsertDefiLlamaApyMany(_, _)
upsertDefiLlamaApyMany(tbl, rows) ==
    IF rows = <<>> THEN tbl
    ELSE LET e == Head(rows)
         IN upsertDefiLlamaApyMany(
                [d \in DOMAIN tbl \cup {e.timestamp} |->
                    IF d = e.timestamp THEN e.apy ELSE tbl[d]],
                Tail(rows))

\* insertBtcPrices(prices): the table after the transaction
RECURSIVE insertBtcPrices(_, _)
insertBtcPrices(tbl, prices) ==
    IF prices = <<>> THEN tbl
    ELSE LET e == Head(prices)
         IN insertBtcPrices(
                [d \in DOMAIN tbl \cup {e[1]} |-> IF d = e[1] THEN e[2] ELSE tbl[d]],
                Tail(prices))

\* SELECT COUNT(*) FROM btc_prices WHERE date >= ? AND date <= ?; a range
\* is skipped when it is already covered (existing.c > 60 of about 90 days,
\* here more than one of its two days).
RangeCovered(tbl, range) ==
    Cardinality({ d \in DOMAIN tbl : d >= range.from /\ d <= range.to }) > 1

\* The first range from r on that is fetched, or 0 when the loop ends.
RECURSIVE NextRange(_, _)
NextRange(tbl, r) ==
    IF r > Len(backfillRanges) THEN 0
    ELSE IF RangeCovered(tbl, backfillRanges[r]) THEN NextRange(tbl, r + 1)
    ELSE r

\* The calls of fullSync made so far: those that returned and the one waiting.
Calls == sync.runs + other.runs + (IF other.pc = "idle" THEN 0 ELSE 1)

\* cron.schedule / POST /api/sync / the start-up sync: fullSync() begins and
\* runs to its first fetch.
StartSync ==
    /\ sync.pc = "idle"
    /\ Calls < MaxSyncs
    /\ sync' = [sync EXCEPT
                   !.pc = "pendle", !.idx = 1, !.attempted = {}, !.total = 0,
                   !.computed = FALSE,
                   !.prev = Some([daily_snapshots |-> daily_snapshots,
                                  term_spreads |-> term_spreads,
                                  btc_prices |-> btc_prices,
                                  defillama_apy |-> defillama_apy,
                                  ethena_yields |-> ethena_yields,
                                  sync_log |-> sync_log,
                                  day |-> sync.day])]
    /\ lastOp' = "startSync"
    /\ UNCHANGED <<daily_snapshots, term_spreads, tieBreak, ingests, api,
                   termSpreadsWithBtc, btcPriceMap, lookupVars,
                   btc_prices, defillama_apy, ethena_yields, sync_log, feeds, today,
                   supplied, batch, cls, deciles, volChart, dashboard, other,
                   regimeStats>>

\* The day changes while the server runs.
Midnight ==
    /\ today < MaxToday
    /\ today' = today + 1
    /\ UNCHANGED <<daily_snapshots, term_spreads, tieBreak, ingests, lastOp, api,
                   termSpreadsWithBtc, btcPriceMap, lookupVars,
                   btc_prices, defillama_apy, ethena_yields, sync_log, feeds, sync,
                   supplied, batch, cls, deciles, volChart, dashboard, other,
                   regimeStats>>

\* Two calls of fullSync are in progress (the cron job, POST /api/sync, the
\* start-up sync): the one that was waiting at its fetch gets its answer
\* next, the one that was running waits.
SwitchRun ==
    /\ sync # other
    /\ sync' = other
    /\ other' = sync
    /\ UNCHANGED <<daily_snapshots, term_spreads, tieBreak, ingests, lastOp, api,
                   termSpreadsWithBtc, btcPriceMap, lookupVars,
                   btc_prices, defillama_apy, ethena_yields, sync_log, feeds, today,
                   supplied, batch, volChart, dashboard, cls, deciles, regimeStats>>

\* Between two runs the sources come to answer differently: other quotes,
\* other fetches failing.
FeedsChange(f) ==
    /\ sync.pc = "idle"
    /\ sync.runs >= 1
    /\ f # feeds
    /\ feeds' = f
    /\ UNCHANGED <<daily_snapshots, term_spreads, tieBreak, ingests, lastOp, api,
                   termSpreadsWithBtc, btcPriceMap, lookupVars,
                   btc_prices, defillama_apy, ethena_yields, sync_log, today, sync,
                   supplied, batch, volChart, dashboard, cls, deciles, other,
                   regimeStats>>

\* fullSync after an ingest function has come back: on to the next step, or
\* rejected when an error left the function.
Continue(sy, fetch, thrown, pc, idx) ==
    IF Propagates(thrown)
    THEN [sy EXCEPT !.pc = "failed", !.attempted = @ \cup {fetch}]
    ELSE [sy EXCEPT !.pc = pc, !.idx = idx, !.attempted = @ \cup {fetch}]

\* The answer to market sync.idx's history request arrives:
\* ingestPendleMarket stores it; after the last market
\* ingestAllPendleMarkets logs the total and ingestDefiLlama sends its
\* request.
SyncPendleMarket ==
    /\ sync.pc = "pendle"
    /\ LET i == sync.idx
           fetch == <<"pendle", i>>
           ok == fetch \notin feeds.down
           r == ingestPendleMarket(daily_snapshots, SUSDE_MARKETS[i], ok, PendleFeed(i))
           last == i = Len(SUSDE_MARKETS)
           next == Continue(sync, fetch, ~ok,
                            IF last THEN "defillama" ELSE "pendle",
                            IF last THEN 0 ELSE i + 1)
       IN /\ daily_snapshots' = r.tbl
          /\ sync' = [next EXCEPT !.total = IF last THEN 0 ELSE sync.total + r.count]
          /\ sync_log' = IF last /\ next.pc # "failed"
                         THEN insertSyncLog(sync_log, "pendle", sync.total + r.count, "ok")
                         ELSE sync_log
    /\ lastOp' = "ingestPendleMarket"
    /\ UNCHANGED <<term_spreads, tieBreak, ingests, api,
                   termSpreadsWithBtc, btcPriceMap, lookupVars,
                   btc_prices, defillama_apy, ethena_yields, feeds, today,
                   supplied, batch, cls, deciles, volChart, dashboard, other,
                   regimeStats>>

\* The DefiLlama answer arrives: ingestDefiLlama stores and logs it, or
\* logs the error; ingestBtcPrices sends its first request.
SyncDefiLlama ==
    /\ sync.pc = "defillama"
    /\ LET fetch == <<"defillama", 0>>
           ok == fetch \notin feeds.down
           next == Continue(sync, fetch, ~ok, "coingecko", 0)
       IN /\ defillama_apy' =
                 IF ok THEN upsertDefiLlamaApyMany(defillama_apy, DefiLlamaFeed)
                 ELSE defillama_apy
          /\ sync_log' =
                 IF ok THEN insertSyncLog(sync_log, "defillama", Len(DefiLlamaFeed), "ok")
                 ELSE insertSyncLog(sync_log, "defillama", 0, "error")
          /\ sync' = next
    /\ lastOp' = "ingestDefiLlama"
    /\ UNCHANGED <<daily_snapshots, term_spreads, tieBreak, ingests, api,
                   termSpreadsWithBtc, btcPriceMap, lookupVars,
                   btc_prices, ethena_yields, feeds, today, supplied, batch, cls, deciles,
                   volChart, dashboard, other, regimeStats>>

\* An answer of CoinGecko arrives (the recent chart when sync.idx = 0, else
\* range sync.idx): ingestBtcPrices stores it, skips the ranges already
\* covered and asks for the next one; after the last range it logs the
\* total and ingestEthenaYield sends its request.
SyncBtcPrices ==
    /\ sync.pc = "coingecko"
    /\ LET r == sync.idx
           fetch == <<"coingecko", r>>
           ok == fetch \notin feeds.down
           prices == IF r = 0 THEN CoinGeckoFeed(1, 2)
                     ELSE CoinGeckoFeed(backfillRanges[r].from, backfillRanges[r].to)
           tbl == IF ok THEN insertBtcPrices(btc_prices, prices) ELSE btc_prices
           total == sync.total + (IF ok THEN Len(prices) ELSE 0)
           nr == NextRange(tbl, r + 1)
           next == Continue(sync, fetch, ~ok,
                            IF nr = 0 THEN "ethena" ELSE "coingecko", nr)
       IN /\ btc_prices' = tbl
          /\ sync' = [next EXCEPT !.total = IF nr = 0 THEN 0 ELSE total]
          /\ sync_log' = IF nr = 0 /\ next.pc # "failed"
                         THEN insertSyncLog(sync_log, "coingecko", total, "ok")
                         ELSE sync_log
    /\ lastOp' = "ingestBtcPrices"
    /\ UNCHANGED <<daily_snapshots, term_spreads, tieBreak, ingests, api,
                   termSpreadsWithBtc, btcPriceMap, lookupVars,
                   defillama_apy, ethena_yields, feeds, today, supplied, batch, cls, deciles,
                   volChart, dashboard, other, regimeStats>>

\* The Ethena answer arrives: ingestEthenaYield stores it under today's
\* date and logs it, or logs the error; then fullSync runs
\* computeTermSpreads() and compute7DayMA() and returns.
SyncEthenaAndCompute ==
    /\ sync.pc = "ethena"
    /\ LET fetch == <<"ethena", 0>>
           ok == fetch \notin feeds.down
           next == Continue(sync, fetch, ~ok, "idle", 0)
           done == next.pc # "failed"
       IN /\ ethena_yields' =
                 IF ok THEN [d \in DOMAIN ethena_yields \cup {today} |->
                                IF d = today THEN EthenaFeed ELSE ethena_yields[d]]
                 ELSE ethena_yields
          /\ sync_log' =
                 IF ok THEN insertSyncLog(sync_log, "ethena", 1, "ok")
                 ELSE insertSyncLog(sync_log, "ethena", 0, "error")
          /\ term_spreads' =
                 IF done
                 THEN compute7DayMA(computeTermSpreads(daily_snapshots, term_spreads))
                 ELSE term_spreads
          /\ sync' = [next EXCEPT !.computed = done,
                                  !.runs = IF done THEN @ + 1 ELSE @,
                                  !.day = today]
          /\ lastOp' = IF done THEN "fullSync" ELSE "fullSyncFailed"
    /\ UNCHANGED <<daily_snapshots, tieBreak, ingests, api,
                   termSpreadsWithBtc, btcPriceMap, lookupVars,
                   btc_prices, defillama_apy, feeds, today, supplied, batch, cls, deciles,
                   volChart, dashboard, other, regimeStats>>

\* ---------------------------------------------------------------- specifications
Init ==
    /\ daily_snapshots = <<>>
    /\ term_spreads = <<>>
    /\ tieBreak \in {"asc", "desc"}
    /\ ingests = 0
    /\ lastOp = "init"
    /\ api = NULL
    /\ termSpreadsWithBtc = <<>>
    /\ btcPriceMap = <<>>
    /\ timeZone = UtcZone
    /\ lookup = NULL
    /\ btc_prices = <<>>
    /\ defillama_apy = <<>>
    /\ ethena_yields = <<>>
    /\ sync_log = <<>>
    /\ feeds = NoFeeds
    /\ today = 1
    /\ sync = SyncIdle
    /\ other = SyncIdle
    /\ supplied = <<>>
    /\ batch = NULL
    /\ volChart = NULL
    /\ dashboard = NULL
    /\ regimeStats = NULL
    /\ cls = NoClass
    /\ deciles = NULL

Next ==
    \/ \E i \in MarketIdx, ok \in BOOLEAN, results \in PendleResponses :
           IngestPendleMarket(i, ok, results)
    \/ ComputeTermSpreads
    \/ Compute7DayMA

Spec == Init /\ [][Next]_vars

\* ---------------------------------------------------------------- SpecSpread
\* The spread engine as a function of the snapshot table: the table is any
\* table of at most MaxRows rows that ingestion can build (each row carries
\* its market's expiry and the day difference to it).
SnapshotRow(d, i, q) ==
    [date |-> d, market_addr |-> SUSDE_MARKETS[i].address,
     expiry |-> SUSDE_MARKETS[i].expiry,
     implied_apy |-> q.impliedApy,
     underlying_apy |-> q.underlyingApy,
     days_to_expiry |-> daysBetween(d, SUSDE_MARKETS[i].expiry)]

TableOf(K, q) ==
    [k \in { <<c[1], SUSDE_MARKETS[c[2]].address>> : c \in K } |->
        LET c == CHOOSE c \in K : c[1] = k[1] /\ SUSDE_MARKETS[c[2]].address = k[2]
        IN SnapshotRow(c[1], c[2], q[c])]

SmallKeySets(maxRows) ==
    { K \in SUBSET (Dates \X MarketIdx) : Cardinality(K) <= maxRows }

InitSpread ==
    /\ \E K \in SmallKeySets(MaxRows) : \E q \in [K -> Quotes] :
           daily_snapshots = TableOf(K, q)
    /\ term_spreads = <<>>
    /\ tieBreak \in {"asc", "desc"}
    /\ ingests = 0
    /\ lastOp = "init"
    /\ api = NULL
    /\ termSpreadsWithBtc = <<>>
    /\ btcPriceMap = <<>>
    /\ timeZone = UtcZone
    /\ lookup = NULL
    /\ btc_prices = <<>>
    /\ defillama_apy = <<>>
    /\ ethena_yields = <<>>
    /\ sync_log = <<>>
    /\ feeds = NoFeeds
    /\ today = 1
    /\ sync = SyncIdle
    /\ other = SyncIdle
    /\ supplied = <<>>
    /\ batch = NULL
    /\ volChart = NULL
    /\ dashboard = NULL
    /\ regimeStats = NULL
    /\ cls = NoClass
    /\ deciles = NULL

NextSpread ==
    \/ ComputeTermSpreads
    \/ Compute7DayMA

SpecSpread == InitSpread /\ [][NextSpread]_vars

\* The spread engine over the same tables, the order of tied rows changing
\* between its runs.
NextOrder ==
    \/ ComputeTermSpreads
    \/ Reorder

SpecOrder == InitSpread /\ [][NextOrder]_vars

\* ---------------------------------------------------------------- SpecMA
\* The smoothing pass as a function of the spread series: term_spreads holds
\* a series of up to MaxSeries dates with spreads drawn from SpreadValues.
SpreadValues == { 0 - PctPoint, 0, PctPoint \div 2 }

SeriesRecord(d, v) ==
    [date |-> d,
     front_addr |-> SUSDE_MARKETS[1].address,
     front_expiry |-> MaxSeries + 1,
     front_implied |-> 4 * PctPoint,
     back_addr |-> SUSDE_MARKETS[4].address,
     back_expiry |-> MaxSeries + 2,
     back_implied |-> 4 * PctPoint + v,
     term_spread |-> v,
     term_spread_7dma |-> NULL,
     underlying_apy |-> 3 * PctPoint,
     num_maturities |-> 2]

InitMA ==
    /\ daily_snapshots = <<>>
    /\ \E n \in 0..MaxSeries : \E v \in [1..n -> SpreadValues] :
           term_spreads = [d \in 1..n |-> SeriesRecord(d, v[d])]
    /\ tieBreak = "asc"
    /\ ingests = 0
    /\ lastOp = "init"
    /\ api = NULL
    /\ termSpreadsWithBtc = <<>>
    /\ btcPriceMap = <<>>
    /\ timeZone = UtcZone
    /\ lookup = NULL
    /\ btc_prices = <<>>
    /\ defillama_apy = <<>>
    /\ ethena_yields = <<>>
    /\ sync_log = <<>>
    /\ feeds = NoFeeds
    /\ today = 1
    /\ sync = SyncIdle
    /\ other = SyncIdle
    /\ supplied = <<>>
    /\ batch = NULL
    /\ volChart = NULL
    /\ dashboard = NULL
    /\ regimeStats = NULL
    /\ cls = NoClass
    /\ deciles = NULL

NextMA == Compute7DayMA

SpecMA == InitMA /\ [][NextMA]_vars

\* ---------------------------------------------------------------- SpecClassify
\* The classifier on every spread of at most MaxAbsPct percentage points,
\* in steps of 1/PctPoint of a point, and every spread type.
InitClassify ==
    /\ daily_snapshots = <<>>
    /\ term_spreads = <<>>
    /\ tieBreak = "asc"
    /\ ingests = 0
    /\ lastOp = "init"
    /\ api = NULL
    /\ termSpreadsWithBtc = <<>>
    /\ btcPriceMap = <<>>
    /\ timeZone = UtcZone
    /\ lookup = NULL
    /\ btc_prices = <<>>
    /\ defillama_apy = <<>>
    /\ ethena_yields = <<>>
    /\ sync_log = <<>>
    /\ feeds = NoFeeds
    /\ today = 1
    /\ sync = SyncIdle
    /\ other = SyncIdle
    /\ supplied = <<>>
    /\ batch = NULL
    /\ volChart = NULL
    /\ dashboard = NULL
    /\ regimeStats = NULL
    /\ \E x \in (0 - MaxAbsPct * PctPoint)..(MaxAbsPct * PctPoint), t \in SpreadTypes :
           cls = [spreadPct |-> x, spreadType |-> t, result |-> NULL]
    /\ deciles = NULL

NextClassify == InterpretTermSpread

SpecClassify == InitClassify /\ [][NextClassify]_vars

\* ---------------------------------------------------------------- SpecApi
\* The term-structure endpoint over tables of at most MaxApiRows rows on the
\* days 1..MaxApiDate, before and after the spread engine has run, asked for
\* any day from before the first to after the last.
ApiKeySets ==
    { K \in SUBSET ((1..MaxApiDate) \X MarketIdx) : Cardinality(K) <= MaxApiRows }

InitApi ==
    /\ \E K \in ApiKeySets : \E q \in [K -> Quotes] :
           daily_snapshots = TableOf(K, q)
    /\ term_spreads = <<>>
    /\ tieBreak \in {"asc", "desc"}
    /\ ingests = 0
    /\ lastOp = "init"
    /\ api = NULL
    /\ termSpreadsWithBtc = <<>>
    /\ btcPriceMap = <<>>
    /\ timeZone = UtcZone
    /\ lookup = NULL
    /\ btc_prices = <<>>
    /\ defillama_apy = <<>>
    /\ ethena_yields = <<>>
    /\ sync_log = <<>>
    /\ feeds = NoFeeds
    /\ today = 1
    /\ sync = SyncIdle
    /\ other = SyncIdle
    /\ supplied = <<>>
    /\ batch = NULL
    /\ volChart = NULL
    /\ dashboard = NULL
    /\ regimeStats = NULL
    /\ cls = NoClass
    /\ deciles = NULL

NextApi ==
    \/ ComputeTermSpreads
    \/ \E date \in 0..(MaxApiDate + 1) : GetTermStructure(date)

SpecApi == InitApi /\ [][NextApi]_vars

\* ---------------------------------------------------------------- SpecDeciles
\* The decile table over spread series of up to MaxObs daily observations
\* and price maps with gaps.  Observation k is on day k with spread
\* ((a * k) mod m - 2) * DecUnit; day d has a price when (d + shift) mod
\* period < width, and the price is 100 * (1 + d mod 3).
SpreadPatterns == { <<1, 3>>, <<3, 7>>, <<4, 7>>, <<0, 7>> }
PricePatterns == { <<1, 1>>, <<2, 1>>, <<7, 1>>, <<10, 2>>, <<1, 0>> }

PriceDays(pat, shift) ==
    { d \in 1..(MaxObs + 90 + 3) : (d + shift) % pat[1] < pat[2] }

PriceMapOf(pat, shift) ==
    [d \in PriceDays(pat, shift) |-> 100 * (1 + (d % 3))]

\* The rows of /api/term-spreads/with-btc: btc_price is the day's price or
\* null (LEFT JOIN btc_prices).
JoinedSeries(n, sp, priceMap) ==
    [k \in 1..n |->
        [date |-> k,
         term_spread |-> (((sp[1] * k) % sp[2]) - 2) * DecUnit,
         btc_price |-> PriceAt(priceMap, k)]]

InitDeciles ==
    /\ daily_snapshots = <<>>
    /\ term_spreads = <<>>
    /\ tieBreak = "asc"
    /\ ingests = 0
    /\ lastOp = "init"
    /\ api = NULL
    /\ \E n \in 0..MaxObs, sp \in SpreadPatterns, pat \in PricePatterns, shift \in 0..2 :
           /\ btcPriceMap = PriceMapOf(pat, shift)
           /\ termSpreadsWithBtc = JoinedSeries(n, sp, btcPriceMap)
    /\ timeZone \in TimeZones({MaxObs \div 2, MaxObs + 90})
    /\ lookup = NULL
    /\ btc_prices = <<>>
    /\ defillama_apy = <<>>
    /\ ethena_yields = <<>>
    /\ sync_log = <<>>
    /\ feeds = NoFeeds
    /\ today = 1
    /\ sync = SyncIdle
    /\ other = SyncIdle
    /\ supplied = <<>>
    /\ batch = NULL
    /\ volChart = NULL
    /\ dashboard = NULL
    /\ regimeStats = NULL
    /\ cls = NoClass
    /\ deciles = NULL

NextDeciles == ComputeDeciles

SpecDeciles == InitDeciles /\ [][NextDeciles]_vars

\* ---------------------------------------------------------------- SpecLookup
\* One price lookup on every price map over the days 1..MaxPriceDay, in
\* every host time zone, the change of offset falling on any of those days.
\* The price of day d is 100 * d, so a price tells the day it was read from.
InitLookup ==
    /\ daily_snapshots = <<>>
    /\ term_spreads = <<>>
    /\ tieBreak = "asc"
    /\ ingests = 0
    /\ lastOp = "init"
    /\ api = NULL
    /\ termSpreadsWithBtc = <<>>
    /\ \E D \in SUBSET (1..MaxPriceDay) :
           btcPriceMap = [d \in D |-> 100 * d]
    /\ timeZone \in TimeZones(1..MaxPriceDay)
    /\ lookup = NULL
    /\ btc_prices = <<>>
    /\ defillama_apy = <<>>
    /\ ethena_yields = <<>>
    /\ sync_log = <<>>
    /\ feeds = NoFeeds
    /\ today = 1
    /\ sync = SyncIdle
    /\ other = SyncIdle
    /\ supplied = <<>>
    /\ batch = NULL
    /\ volChart = NULL
    /\ dashboard = NULL
    /\ regimeStats = NULL
    /\ cls = NoClass
    /\ deciles = NULL

NextLookup == \E date \in 1..MaxPriceDay : FindBtcPrice(date)

SpecLookup == InitLookup /\ [][NextLookup]_vars

\* ---------------------------------------------------------------- SpecSync
\* Runs of fullSync from the empty store, against sources of which any set
\* is down; what a source answers is the same throughout a behaviour.
InitSync ==
    /\ daily_snapshots = <<>>
    /\ term_spreads = <<>>
    /\ tieBreak \in {"asc", "desc"}
    /\ ingests = 0
    /\ lastOp = "init"
    /\ api = NULL
    /\ termSpreadsWithBtc = <<>>
    /\ btcPriceMap = <<>>
    /\ timeZone = UtcZone
    /\ lookup = NULL
    /\ btc_prices = <<>>
    /\ defillama_apy = <<>>
    /\ ethena_yields = <<>>
    /\ sync_log = <<>>
    /\ \E down \in SUBSET Fetches, q \in 0..1 : feeds = [down |-> down, quote |-> q]
    /\ today = 1
    /\ sync = SyncIdle
    /\ other = SyncIdle
    /\ supplied = <<>>
    /\ batch = NULL
    /\ volChart = NULL
    /\ dashboard = NULL
    /\ regimeStats = NULL
    /\ cls = NoClass
    /\ deciles = NULL

NextSync ==
    \/ StartSync
    \/ SyncPendleMarket
    \/ SyncDefiLlama
    \/ SyncBtcPrices
    \/ SyncEthenaAndCompute
    \/ Midnight

SpecSync == InitSync /\ [][NextSync]_vars

\* ---------------------------------------------------------------- SpecResync
\* Runs of fullSync between which the sources change what they answer: the
\* quotes, and whether the history of the front or of the back market can be
\* fetched.
ResyncFeeds ==
    { [down |-> d, quote |-> q] :
        d \in { {}, {<<"pendle", 1>>}, {<<"pendle", Len(SUSDE_MARKETS)>>},
                {<<"defillama", 0>>, <<"coingecko", 0>>, <<"ethena", 0>>} },
        q \in 0..1 }

InitResync ==
    /\ daily_snapshots = <<>>
    /\ term_spreads = <<>>
    /\ tieBreak \in {"asc", "desc"}
    /\ ingests = 0
    /\ lastOp = "init"
    /\ api = NULL
    /\ termSpreadsWithBtc = <<>>
    /\ btcPriceMap = <<>>
    /\ timeZone = UtcZone
    /\ lookup = NULL
    /\ btc_prices = <<>>
    /\ defillama_apy = <<>>
    /\ ethena_yields = <<>>
    /\ sync_log = <<>>
    /\ feeds \in ResyncFeeds
    /\ today = 1
    /\ sync = SyncIdle
    /\ other = SyncIdle
    /\ supplied = <<>>
    /\ batch = NULL
    /\ volChart = NULL
    /\ dashboard = NULL
    /\ regimeStats = NULL
    /\ cls = NoClass
    /\ deciles = NULL

NextResync ==
    \/ StartSync
    \/ SyncPendleMarket
    \/ SyncDefiLlama
    \/ SyncBtcPrices
    \/ SyncEthenaAndCompute
    \/ Midnight
    \/ \E f \in ResyncFeeds : FeedsChange(f)

SpecResync == InitResync /\ [][NextResync]_vars

\* ---------------------------------------------------------------- SpecServe
\* The server answers GET /api/term-spreads while fullSync runs, the store
\* empty at the start and fullSync its only writer.
\* A request names no bound, or the first day, as from or as to.
RequestBounds == {NULL, Some(1)}

NextServe ==
    \/ StartSync
    \/ SyncPendleMarket
    \/ SyncDefiLlama
    \/ SyncBtcPrices
    \/ SyncEthenaAndCompute
    \/ \E f \in ResyncFeeds : FeedsChange(f)
    \/ \E from \in RequestBounds, to \in RequestBounds : GetTermSpreads(from, to)

SpecServe == InitResync /\ [][NextServe]_vars

\* ---------------------------------------------------------------- SpecOverlap
\* Two calls of fullSync interleaved at their fetches, the sources quoting
\* other yields once a run has returned.
InitOverlap ==
    /\ InitResync
    /\ feeds = NoFeeds

\* One of the two calls begins: each trigger calls fullSync once.
StartOverlapping ==
    /\ sync.runs = 0
    /\ StartSync

NextOverlap ==
    \/ StartOverlapping
    \/ SyncPendleMarket
    \/ SyncDefiLlama
    \/ SyncBtcPrices
    \/ SyncEthenaAndCompute
    \/ SwitchRun
    \/ FeedsChange([feeds EXCEPT !.quote = 1 - feeds.quote])

SpecOverlap == InitOverlap /\ [][NextOverlap]_vars

\* ---------------------------------------------------------------- SpecUpsert
\* Up to MaxUpserts runs of upsertSnapshot from the empty store, over two
\* days and two markets, with any expiry and quote in each run.
UpsertParams ==
    { [date |-> d, marketAddr |-> a, expiry |-> e,
       impliedApy |-> q.impliedApy, underlyingApy |-> q.underlyingApy,
       daysToExpiry |-> daysBetween(d, e)] :
        d \in 1..2, a \in {SUSDE_MARKETS[1].address, SUSDE_MARKETS[2].address},
        e \in {SUSDE_MARKETS[1].expiry, SUSDE_MARKETS[2].expiry}, q \in Quotes }

InitUpsert == Init /\ tieBreak = "asc"

NextUpsert == \E p \in UpsertParams : UpsertSnapshot(p)

SpecUpsert == InitUpsert /\ [][NextUpsert]_vars

\* ---------------------------------------------------------------- SpecCurve
\* The dashboard's classification of a latest spread record with any
\* number of maturities, any raw spread and any (or no) smoothed spread
\* within MaxAbsPct points, in steps of a quarter point.
QuarterPoints ==
    { (k * PctPoint) \div 4 : k \in (0 - 4 * MaxAbsPct)..(4 * MaxAbsPct) }

InitCurve ==
    /\ tieBreak = "asc"
    /\ ingests = 0
    /\ lastOp = "init"
    /\ api = NULL
    /\ termSpreadsWithBtc = <<>>
    /\ btcPriceMap = <<>>
    /\ timeZone = UtcZone
    /\ lookup = NULL
    /\ btc_prices = <<>>
    /\ defillama_apy = <<>>
    /\ ethena_yields = <<>>
    /\ sync_log = <<>>
    /\ feeds = NoFeeds
    /\ today = 1
    /\ sync = SyncIdle
    /\ other = SyncIdle
    /\ supplied = <<>>
    /\ batch = NULL
    /\ volChart = NULL
    /\ dashboard = NULL
    /\ regimeStats = NULL
    /\ cls = NoClass
    /\ deciles = NULL
    /\ \E v \in QuarterPoints, w \in {NULL} \cup { Some(x) : x \in QuarterPoints },
          n \in 1..3 :
           /\ daily_snapshots =
                  LET K == {1} \X (IF n = 1 THEN {2} ELSE IF n = 2 THEN {2, 4}
                                   ELSE {1, 2, 4})
                  IN TableOf(K, [k \in K |-> CHOOSE q \in Quotes : TRUE])
           /\ term_spreads =
                  [d \in {1} |->
                      [SeriesRecord(1, IF n = 1 THEN 0 ELSE v) EXCEPT
                          !.term_spread_7dma = w, !.num_maturities = n]]

NextCurve ==
    \/ GetTermStructure(1)
    \/ ClassifyLatest

SpecCurve == InitCurve /\ [][NextCurve]_vars

\* ---------------------------------------------------------------- SpecBatch
\* ingestPendleMarket on an empty store, over answers of the Pendle API in
\* which at most one entry comes without one of its fields.
Without(e, field) == [f \in DOMAIN e \ {field} |-> e[f]]

BatchResponses ==
    LET whole == UNION { HistoryFrom(1, n) : n \in 1..MaxBatch }
    IN whole \cup
       { [h EXCEPT ![k] = Without(h[k], field)] :
           <<h, k, field>> \in
               { t \in whole \X (1..MaxBatch) \X RequiredOfEntry : t[2] <= Len(t[1]) } }

InitBatch == Init /\ tieBreak = "asc"

NextBatch ==
    \E i \in MarketIdx, ok \in BOOLEAN, results \in BatchResponses :
        IngestPendleMarket(i, ok, results)

SpecBatch == InitBatch /\ [][NextBatch]_vars

\* ---------------------------------------------------------------- SpecVol
\* The volatility chart over series of up to MaxVolObs daily rows.  Day d
\* has no price at all when d mod period < width (VolGaps); its price is 0
\* when d is after day `from` and a multiple of `every` (ZeroDays); else it
\* is 100, or 100 * (1 + d mod 3) when the prices vary.  With mapOnly the
\* odd days have their price in the price map only.
VolGaps == { <<1, 0>>, <<3, 1>>, <<7, 2>> }
ZeroDays == { [from |-> MaxVolObs + 1, every |-> 1], [from |-> 30, every |-> 1],
              [from |-> 15, every |-> 2], [from |-> 0, every |-> 2] }

VolPrice(d, gap, zero, vary) ==
    IF d % gap[1] < gap[2] THEN NULL
    ELSE IF d > zero.from /\ d % zero.every = 0 THEN Some(0)
    ELSE IF vary THEN Some(100 * (1 + (d % 3)))
    ELSE Some(100)

InitVol ==
    /\ daily_snapshots = <<>>
    /\ term_spreads = <<>>
    /\ tieBreak = "asc"
    /\ ingests = 0
    /\ lastOp = "init"
    /\ api = NULL
    /\ \E n \in 0..MaxVolObs, gap \in VolGaps, zero \in ZeroDays,
          vary \in BOOLEAN, mapOnly \in BOOLEAN :
           /\ btcPriceMap =
                  [d \in { d \in 1..n : VolPrice(d, gap, zero, vary) # NULL } |->
                      VolPrice(d, gap, zero, vary)[1]]
           /\ termSpreadsWithBtc =
                  [d \in 1..n |->
                      [date |-> d,
                       term_spread |-> ((d % 5) - 2) * DecUnit,
                       term_spread_7dma |->
                           IF d % 4 = 0 THEN NULL ELSE Some(((d % 3) - 1) * DecUnit),
                       btc_price |-> IF mapOnly /\ d % 2 = 1 THEN NULL
                                     ELSE VolPrice(d, gap, zero, vary)]]
    /\ timeZone = UtcZone
    /\ lookup = NULL
    /\ btc_prices = <<>>
    /\ defillama_apy = <<>>
    /\ ethena_yields = <<>>
    /\ sync_log = <<>>
    /\ feeds = NoFeeds
    /\ today = 1
    /\ sync = SyncIdle
    /\ other = SyncIdle
    /\ supplied = <<>>
    /\ batch = NULL
    /\ volChart = NULL
    /\ dashboard = NULL
    /\ regimeStats = NULL
    /\ cls = NoClass
    /\ deciles = NULL

NextVol == RenderVolChart

SpecVol == InitVol /\ [][NextVol]_vars

\* ---------------------------------------------------------------- SpecRegime
\* The dashboard on any day over the tables of SpecApi: the spread engine
\* runs, the dashboard loads /api/term-structure (no date: the server's
\* today) and renders the classification.
InitRegime ==
    /\ \E K \in ApiKeySets : \E q \in [K -> Quotes] :
           daily_snapshots = TableOf(K, q)
    /\ term_spreads = <<>>
    /\ tieBreak = "asc"
    /\ ingests = 0
    /\ lastOp = "init"
    /\ api = NULL
    /\ termSpreadsWithBtc = <<>>
    /\ btcPriceMap = <<>>
    /\ timeZone = UtcZone
    /\ lookup = NULL
    /\ btc_prices = <<>>
    /\ defillama_apy = <<>>
    /\ ethena_yields = <<>>
    /\ sync_log = <<>>
    /\ feeds = NoFeeds
    /\ today \in 1..(MaxApiDate + 1)
    /\ sync = SyncIdle
    /\ other = SyncIdle
    /\ supplied = <<>>
    /\ batch = NULL
    /\ volChart = NULL
    /\ dashboard = NULL
    /\ regimeStats = NULL
    /\ cls = NoClass
    /\ deciles = NULL

NextRegime ==
    \/ ComputeTermSpreads
    \/ GetTermStructure(today)
    \/ ClassifyLatest

SpecRegime == InitRegime /\ [][NextRegime]_vars

\* ---------------------------------------------------------------- SpecLoad
\* The dashboard loading its data, with any of the three fetches failing,
\* from a server whose tables are empty or filled: the snapshots of SpecApi,
\* before and after the spread engine has run, and a DefiLlama series of 0
\* to 2 days.
InitLoad ==
    /\ tieBreak = "asc"
    /\ \E K \in ApiKeySets : \E q \in [K -> Quotes] :
           daily_snapshots = TableOf(K, q)
    /\ term_spreads = <<>>
    /\ ingests = 0
    /\ lastOp = "init"
    /\ api = NULL
    /\ termSpreadsWithBtc = <<>>
    /\ btcPriceMap = <<>>
    /\ timeZone = UtcZone
    /\ lookup = NULL
    /\ btc_prices = <<>>
    /\ \E n \in 0..2 : defillama_apy = [d \in 1..n |-> 3 * PctPoint]
    /\ ethena_yields = <<>>
    /\ sync_log = <<>>
    /\ feeds = NoFeeds
    /\ today = MaxApiDate
    /\ sync = SyncIdle
    /\ other = SyncIdle
    /\ supplied = <<>>
    /\ batch = NULL
    /\ volChart = NULL
    /\ dashboard = NULL
    /\ regimeStats = NULL
    /\ cls = NoClass
    /\ deciles = NULL

NextLoad ==
    \/ ComputeTermSpreads
    \/ \E rejected \in SUBSET DashboardFeeds : LoadData(rejected)

SpecLoad == InitLoad /\ [][NextLoad]_vars

\* ---------------------------------------------------------------- SpecStats
\* The regime statistics of every series of up to MaxStatObs observations
\* whose spreads lie on a boundary of the buckets or one unit beside it.
BoundarySpreads ==
    { b + e : b \in {2 * PctPoint, PctPoint \div 2, 0 - (PctPoint \div 2), 0 - 5 * PctPoint},
              e \in {0 - 1, 0, 1} }

InitStats ==
    /\ daily_snapshots = <<>>
    /\ term_spreads = <<>>
    /\ tieBreak = "asc"
    /\ ingests = 0
    /\ lastOp = "init"
    /\ api = NULL
    /\ \E n \in 1..MaxStatObs :
           \E sp \in [1..n -> BoundarySpreads] :
               termSpreadsWithBtc =
                   [k \in 1..n |-> [date |-> k, term_spread |-> sp[k], btc_price |-> NULL]]
    /\ btcPriceMap = <<>>
    /\ timeZone = UtcZone
    /\ lookup = NULL
    /\ btc_prices = <<>>
    /\ defillama_apy = <<>>
    /\ ethena_yields = <<>>
    /\ sync_log = <<>>
    /\ feeds = NoFeeds
    /\ today = 1
    /\ sync = SyncIdle
    /\ other = SyncIdle
    /\ supplied = <<>>
    /\ batch = NULL
    /\ volChart = NULL
    /\ dashboard = NULL
    /\ regimeStats = NULL
    /\ cls = NoClass
    /\ deciles = NULL

NextStats == RenderRegimeStatistics

SpecStats == InitStats /\ [][NextStats]_vars

\* ---------------------------------------------------------------- properties
\* What the claims speak of, read off the tables directly.
LiveRows(d) ==
    { daily_snapshots[k] : k \in { k \in DOMAIN daily_snapshots :
          k[1] = d /\ daily_snapshots[k].days_to_expiry > 0 } }

LiveMaturities(d) == { r.expiry : r \in LiveRows(d) }

LegRows(d, e) == { r \in LiveRows(d) : r.expiry = e }

RECURSIVE ImpliedTotal(_)
ImpliedTotal(R) ==
    IF R = {} THEN 0
    ELSE LET r == CHOOSE r \in R : TRUE
         IN r.implied_apy + ImpliedTotal(R \ {r})

IsMin(e, S) == e \in S /\ \A x \in S : e <= x
IsMax(e, S) == e \in S /\ \A x \in S : x <= e

\* rec.<leg>_implied is the equal-weight mean of the leg's implied yields
IsLegMean(v, d, e) ==
    v * Cardinality(LegRows(d, e)) = ImpliedTotal(LegRows(d, e))

\* C1: after computeTermSpreads, every date whose live snapshots (those with
\* days_to_expiry > 0) cover two or more distinct maturities has a record
\* whose front maturity is the least and back maturity the greatest of them,
\* whose leg yields are the means over all live instruments of that maturity,
\* whose spread is back minus front and whose maturity count is the number
\* of distinct live maturities.
C1_MultiMaturityRecord ==
    lastOp = "computeTermSpreads" =>
        \A d \in Dates :
            Cardinality(LiveMaturities(d)) >= 2 =>
                /\ d \in DOMAIN term_spreads
                /\ LET rec == term_spreads[d]
                   IN /\ IsMin(rec.front_expiry, LiveMaturities(d))
                      /\ IsMax(rec.back_expiry, LiveMaturities(d))
                      /\ IsLegMean(rec.front_implied, d, rec.front_expiry)
                      /\ IsLegMean(rec.back_implied, d, rec.back_expiry)
                      /\ rec.term_spread = rec.back_implied - rec.front_implied
                      /\ rec.num_maturities = Cardinality(LiveMaturities(d))

\* A date with two live maturities, a back leg shared by two instruments of
\* different yield, and its record computed.
C1_Witness ==
    /\ lastOp = "computeTermSpreads"
    /\ \E d \in Dates :
          /\ Cardinality(LiveMaturities(d)) >= 2
          /\ d \in DOMAIN term_spreads
          /\ \E r1, r2 \in LegRows(d, term_spreads[d].back_expiry) :
                 r1.implied_apy # r2.implied_apy
          /\ term_spreads[d].term_spread # 0

C4_ComputeTwiceSame ==
    [][(lastOp = "computeTermSpreads" /\ lastOp' = "computeTermSpreads")
          => term_spreads' = term_spreads]_vars

\* computeTermSpreads has run over records that already existed (they carry
\* a smoothed value), one multi-maturity and one single-maturity.
C4_Witness ==
    /\ lastOp = "computeTermSpreads"
    /\ \E d \in DOMAIN term_spreads :
          /\ term_spreads[d].term_spread_7dma # NULL
          /\ term_spreads[d].num_maturities >= 2
          /\ term_spreads[d].term_spread # 0
    /\ \E d \in DOMAIN term_spreads : term_spreads[d].num_maturities = 1

\* Index of date d in the spread series ordered by date (0-based).
SeriesIndex(d) == Cardinality({ e \in DOMAIN term_spreads : e < d })

\* The dates at indices lo..hi of the ordered series.
SeriesDates(lo, hi) ==
    { e \in DOMAIN term_spreads : lo <= SeriesIndex(e) /\ SeriesIndex(e) <= hi }

RECURSIVE SpreadTotal(_)
SpreadTotal(D) ==
    IF D = {} THEN 0
    ELSE LET d == CHOOSE d \in D : TRUE
         IN term_spreads[d].term_spread + SpreadTotal(D \ {d})

\* C5: after compute7DayMA the smoothed value at index i of the series
\* ordered by date is the mean of spread[i-6..i] when i >= 6 and of
\* spread[0..i] when i < 6 (so of no later entry).
C5_TrailingWindowMean ==
    lastOp = "compute7DayMA" =>
        \A d \in DOMAIN term_spreads :
            LET i == SeriesIndex(d)
                lo == IF i >= 6 THEN i - 6 ELSE 0
                sm == term_spreads[d].term_spread_7dma
            IN /\ sm # NULL
               /\ sm[1] * (i - lo + 1) = SpreadTotal(SeriesDates(lo, i))

\* A smoothed series of eight or more entries in which the entry at index 7
\* has a full window that leaves out a non-zero first spread.
C5_Witness ==
    /\ lastOp = "compute7DayMA"
    /\ \E d, f \in DOMAIN term_spreads :
          /\ SeriesIndex(d) = 7
          /\ SeriesIndex(f) = 0
          /\ term_spreads[f].term_spread # 0
          /\ term_spreads[d].term_spread_7dma # Some(term_spreads[d].term_spread)

\* C6: for a spread type other than single-maturity the spread x (in
\* percentage points) falls in exactly one bucket with strict upper
\* boundaries: x > 2 steep contango / strongly bullish; 0.5 < x <= 2
\* contango / bullish; -0.5 < x <= 0.5 flat / neutral; -5 < x <= -0.5
\* backwardation / mildly bearish; x <= -5 steep backwardation / bearish.
C6_Buckets ==
    (cls.result # NULL /\ cls.spreadType # "single_maturity") =>
        LET x == cls.spreadPct
            r == cls.result[1]
            P == PctPoint
            Is(s, g) == r.shape = s /\ r.regime = g
        IN /\ (x > 2 * P) => Is("STEEP CONTANGO", "STRONGLY BULLISH")
           /\ (2 * x > P /\ x <= 2 * P) => Is("CONTANGO", "BULLISH")
           /\ (2 * x > 0 - P /\ 2 * x <= P) => Is("FLAT", "NEUTRAL")
           /\ (x > 0 - 5 * P /\ 2 * x <= 0 - P) => Is("BACKWARDATION", "MILDLY BEARISH")
           /\ (x <= 0 - 5 * P) => Is("STEEP BACKWARDATION", "BEARISH")

\* A raw spread of exactly 2.0 points has been classified.
C6_Witness ==
    /\ cls.result # NULL
    /\ cls.spreadType = "term_spread"
    /\ cls.spreadPct = 2 * PctPoint
    /\ cls.result[1].shape = "CONTANGO"

ClampedProb(x) ==
    LET raw == 50 * PctPoint + 8 * x
    IN IF raw < 5 * PctPoint THEN 5 * PctPoint
       ELSE IF raw > 95 * PctPoint THEN 95 * PctPoint
       ELSE raw

\* t tenths is v (in units of 1/PctPoint) rounded to one decimal
IsRoundedToTenth(t, v) ==
    /\ 2 * t * PctPoint - PctPoint <= 2 * 10 * v
    /\ 2 * 10 * v < 2 * t * PctPoint + PctPoint

\* C8: for a spread type other than single-maturity the probability is
\* clamp(50 + 8x, 5, 95) rounded to one decimal; it lies in [5, 95] and does
\* not decrease when the spread grows.
C8_Probability ==
    (cls.result # NULL /\ cls.spreadType # "single_maturity") =>
        LET t == cls.result[1].probPositive90d
        IN /\ IsRoundedToTenth(t, ClampedProb(cls.spreadPct))
           /\ 5 * 10 <= t /\ t <= 95 * 10
           /\ interpretTermSpread(cls.spreadPct - 1, cls.spreadType).probPositive90d <= t

\* A spread whose unclamped probability exceeds 95 has been classified.
C8_Witness ==
    /\ cls.result # NULL
    /\ cls.spreadType = "term_spread_7dma"
    /\ 50 * PctPoint + 8 * cls.spreadPct > 95 * PctPoint
    /\ cls.result[1].probPositive90d = 95 * 10

\* Dates that have at least one snapshot and are not later than date.
DatesUpTo(date) == { d \in { k[1] : k \in DOMAIN daily_snapshots } : d <= date }

\* C9: the term-structure endpoint answers with the greatest date that has a
\* snapshot and is not later than the requested date; when there is none it
\* answers (without an error status) an empty maturity list and a null
\* spread.
C9_ResolvedDate ==
    api # NULL =>
        LET req == api[1].request
            body == api[1].body
        IN /\ api[1].status = 200
           /\ IF DatesUpTo(req) = {}
              THEN body.maturities = <<>> /\ body.termSpread = NULL
              ELSE /\ body.date \in DatesUpTo(req)
                   /\ \A d \in DatesUpTo(req) : d <= body.date
                   /\ body.maturities # <<>>

\* A request for a day without snapshots, between an earlier day with a
\* record and a later day with snapshots, answered with the earlier day.
C9_Witness ==
    /\ api # NULL
    /\ api[1].body.date < api[1].request
    /\ api[1].body.termSpread # NULL
    /\ \E k \in DOMAIN daily_snapshots : k[1] > api[1].request

\* C10: computeDeciles returns an empty list for fewer than 20 observations
\* and, for 20 or more, exactly 10 bins of at least one observation each.
C10_TenNonEmptyBins ==
    deciles # NULL =>
        LET rows == deciles[1]
        IN IF Len(termSpreadsWithBtc) < 20
           THEN rows = <<>>
           ELSE /\ Len(rows) = 10
                /\ \A k \in 1..10 : rows[k].count >= 1 /\ rows[k].members # <<>>

\* A table computed from 21 or more observations that do not divide by ten.
C10_Witness ==
    /\ deciles # NULL
    /\ Len(termSpreadsWithBtc) >= 21
    /\ Len(termSpreadsWithBtc) % 10 # 0
    /\ Len(deciles[1]) = 10
    /\ deciles[1][10].count > deciles[1][1].count

\* The places (bin, position) at which observation r sits in the table.
PlacesOf(rows, r) ==
    { p \in (1..Len(rows)) \X (1..MaxObs + 1) :
        p[2] <= Len(rows[p[1]].members) /\ rows[p[1]].members[p[2]] = r }

\* C11: for 20 or more observations the member counts of the ten bins sum to
\* the number of observations, every observation is in exactly one bin, and
\* the largest spread of bin k is not above the smallest spread of bin k+1.
C11_BinsPartitionInOrder ==
    (deciles # NULL /\ Len(termSpreadsWithBtc) >= 20) =>
        LET rows == deciles[1]
            n == Len(termSpreadsWithBtc)
        IN /\ SumSeq([k \in 1..Len(rows) |-> rows[k].count]) = n
           /\ \A k \in 1..Len(rows) : rows[k].count = Len(rows[k].members)
           /\ \A i \in 1..n :
                  Cardinality(PlacesOf(rows, termSpreadsWithBtc[i])) = 1
           /\ \A k \in 1..(Len(rows) - 1) :
                  \A a \in 1..Len(rows[k].members), b \in 1..Len(rows[k + 1].members) :
                      rows[k].members[a].term_spread <= rows[k + 1].members[b].term_spread

\* A table over 21 or more observations that arrived out of spread order,
\* whose first and last bins hold different spreads.
C11_Witness ==
    /\ deciles # NULL
    /\ Len(termSpreadsWithBtc) >= 21
    /\ \E i \in 1..(Len(termSpreadsWithBtc) - 1) :
           termSpreadsWithBtc[i].term_spread > termSpreadsWithBtc[i + 1].term_spread
    /\ deciles[1][1].members[1].term_spread < deciles[1][10].members[1].term_spread

\* Days of the price map within 3 calendar days of date.
DaysWithin3(date) ==
    { d \in DOMAIN btcPriceMap : d - date <= 3 /\ date - d <= 3 }

\* C12 (as stated): findBtcPrice returns a price whenever the price map has
\* an entry for the target date or for a date within 3 calendar days of it,
\* and null when the nearest price is more than 3 days away.
C12_WithinThreeDays ==
    lookup # NULL =>
        (lookup[1].price # NULL <=> DaysWithin3(lookup[1].date) # {})

\* C12 holds on a host whose offset from UTC never changes: there the
\* lookup finds a price exactly when one is within 3 days.
C12_FixedOffsetHost ==
    (lookup # NULL /\ timeZone.before = timeZone.after) =>
        (lookup[1].price # NULL <=> DaysWithin3(lookup[1].date) # {})

\* A lookup with no price on the target day that resolved to a price three
\* days away, on a host east of UTC.
C12_Witness ==
    /\ lookup # NULL
    /\ timeZone.before = 9
    /\ lookup[1].date \notin DOMAIN btcPriceMap
    /\ DaysWithin3(lookup[1].date) = {lookup[1].date + 3}
    /\ lookup[1].price = Some(btcPriceMap[lookup[1].date + 3])

\* The dates that have a live snapshot.
LiveDates == { k[1] : k \in { k \in DOMAIN daily_snapshots :
                   daily_snapshots[k].days_to_expiry > 0 } }

\* C13: whatever fetches fail, fullSync is never rejected, and when it
\* returns it has attempted every market's history, the DefiLlama chart, the
\* CoinGecko chart with every range not yet covered, and the Ethena yields,
\* and has run the spread computation and the smoothing pass.
C13_SyncSurvivesFailures ==
    /\ sync.pc # "failed"
    /\ lastOp = "fullSync" =>
          /\ sync.pc = "idle"
          /\ \A i \in MarketIdx : <<"pendle", i>> \in sync.attempted
          /\ {<<"defillama", 0>>, <<"coingecko", 0>>, <<"ethena", 0>>}
                 \subseteq sync.attempted
          /\ \A r \in 1..Len(backfillRanges) :
                 <<"coingecko", r>> \in sync.attempted
                     \/ RangeCovered(btc_prices, backfillRanges[r])
          /\ sync.computed
          /\ DOMAIN term_spreads = LiveDates
          /\ \A d \in DOMAIN term_spreads : term_spreads[d].term_spread_7dma # NULL

\* A run that returned although DefiLlama, CoinGecko, Ethena and one Pendle
\* market were down, with spreads computed from the markets that answered.
C13_Witness ==
    /\ lastOp = "fullSync"
    /\ {<<"defillama", 0>>, <<"coingecko", 0>>, <<"coingecko", 1>>,
        <<"ethena", 0>>, <<"pendle", 1>>} \subseteq feeds.down
    /\ {<<"defillama", 0>>, <<"ethena", 0>>, <<"pendle", 2>>} \subseteq sync.attempted
    /\ term_spreads # <<>>
    /\ btc_prices = <<>>

\* The snapshot, spread, price and yield-series tables are as they were when
\* the run that has just returned began.
TablesAsBefore ==
    LET was == sync.prev[1]
    IN /\ daily_snapshots = was.daily_snapshots
       /\ term_spreads = was.term_spreads
       /\ btc_prices = was.btc_prices
       /\ defillama_apy = was.defillama_apy
       /\ ethena_yields = was.ethena_yields

\* The sync log is what it was when the run began, with rows appended.
LogGrew ==
    LET was == sync.prev[1].sync_log
    IN /\ Len(sync_log) > Len(was)
       /\ SubSeq(sync_log, 1, Len(was)) = was

\* C14 (as stated): a second run of fullSync with the same answers from
\* every source leaves the snapshot, spread, price and yield-series tables
\* as they were after the first run; only the sync log grows.
C14_SecondRunSame ==
    (lastOp = "fullSync" /\ sync.runs >= 2) => (TablesAsBefore /\ LogGrew)

\* C14 (amended): a second run of fullSync on the same calendar day as the
\* first, with the same answers from every source, leaves the snapshot,
\* spread (smoothed value included), price and yield-series tables as they
\* were after the first run; only the sync log grows.
C14_SecondRunSameDay ==
    (lastOp = "fullSync" /\ sync.runs >= 2 /\ sync.day = sync.prev[1].day) =>
        (TablesAsBefore /\ LogGrew)

\* A second run on the day of the first, every source answering, over
\* tables that hold snapshots, smoothed spreads, prices and yields.
C14_Witness ==
    /\ lastOp = "fullSync"
    /\ sync.runs = 2
    /\ sync.day = sync.prev[1].day
    /\ feeds.down = {}
    /\ \E d \in DOMAIN term_spreads :
           /\ term_spreads[d].num_maturities >= 2
           /\ term_spreads[d].term_spread_7dma # NULL
    /\ btc_prices # <<>> /\ defillama_apy # <<>> /\ ethena_yields # <<>>

\* C15 (as stated): after any sequence of snapshot upserts the store holds
\* one row per (date, market) key upserted, and every attribute of the row,
\* the maturity included, is the one supplied by the last upsert of the key.
C15_LastWriterWinsFullRow ==
    /\ DOMAIN daily_snapshots = DOMAIN supplied
    /\ \A k \in DOMAIN supplied :
          /\ daily_snapshots[k].date = supplied[k].date
          /\ daily_snapshots[k].market_addr = supplied[k].marketAddr
          /\ daily_snapshots[k].expiry = supplied[k].expiry
          /\ daily_snapshots[k].implied_apy = supplied[k].impliedApy
          /\ daily_snapshots[k].underlying_apy = supplied[k].underlyingApy
          /\ daily_snapshots[k].days_to_expiry = supplied[k].daysToExpiry

\* C15, without the maturity: one row per key, whose yields and days to
\* expiry are those of the last upsert of the key.
C15_LastWriterWinsButExpiry ==
    /\ DOMAIN daily_snapshots = DOMAIN supplied
    /\ \A k \in DOMAIN supplied :
          /\ daily_snapshots[k].date = supplied[k].date
          /\ daily_snapshots[k].market_addr = supplied[k].marketAddr
          /\ daily_snapshots[k].implied_apy = supplied[k].impliedApy
          /\ daily_snapshots[k].underlying_apy = supplied[k].underlyingApy
          /\ daily_snapshots[k].days_to_expiry = supplied[k].daysToExpiry

\* Three upserts on two keys: one key has been upserted twice, the second
\* time with another quote, which is the one stored.
C15_Witness ==
    /\ lastOp = "upsertSnapshot"
    /\ ingests = 3
    /\ Cardinality(DOMAIN daily_snapshots) = 2
    /\ \E k \in DOMAIN daily_snapshots, j \in DOMAIN daily_snapshots :
           daily_snapshots[k].implied_apy # daily_snapshots[j].implied_apy

\* The record the dashboard has classified.
Classified == latestSpread(api)[1]

ContangoFamily == {"CONTANGO", "STEEP CONTANGO"}
BackwardationFamily == {"BACKWARDATION", "STEEP BACKWARDATION"}

\* C16 (as stated): for a spread record with two or more maturities, a
\* positive spread is classified as contango or steep contango and a
\* negative spread as backwardation or steep backwardation.
C16_SignDecidesFamily ==
    (lastOp = "curve" /\ Classified.num_maturities >= 2) =>
        /\ Classified.term_spread > 0 => cls.result[1].shape \in ContangoFamily
        /\ Classified.term_spread < 0 => cls.result[1].shape \in BackwardationFamily

\* C16 (amended): for a spread record with two or more maturities the
\* classified value is the smoothed spread when the record has one and the
\* raw spread otherwise; a value above 0.5 points is classified as contango
\* or steep contango, a value of -0.5 points or below as backwardation or
\* steep backwardation, and a value in between as flat.
C16_ThresholdDecidesFamily ==
    (lastOp = "curve" /\ Classified.num_maturities >= 2) =>
        LET x == IF Classified.term_spread_7dma # NULL
                 THEN Classified.term_spread_7dma[1]
                 ELSE Classified.term_spread
            shape == cls.result[1].shape
        IN /\ 2 * x > PctPoint => shape \in ContangoFamily
           /\ 2 * x <= 0 - PctPoint => shape \in BackwardationFamily
           /\ (2 * x <= PctPoint /\ 2 * x > 0 - PctPoint) => shape = "FLAT"

\* A record of two maturities whose smoothed spread is above 0.5 points
\* while its raw spread is negative, classified as contango.
C16_Witness ==
    /\ lastOp = "curve"
    /\ Classified.num_maturities = 2
    /\ Classified.term_spread < 0
    /\ Classified.term_spread_7dma # NULL
    /\ cls.result[1].shape = "CONTANGO"

\* C17 (as stated): with 25 observations computeDeciles produces exactly 10
\* bins and every bin has either 2 or 3 members.
C17_TwoOrThreeMembers ==
    (deciles # NULL /\ Len(termSpreadsWithBtc) = 25) =>
        /\ Len(deciles[1]) = 10
        /\ \A k \in 1..Len(deciles[1]) : deciles[1][k].count \in {2, 3}

\* C17 (amended): with 25 observations computeDeciles produces exactly 10
\* bins; bins 1 to 9 have 2 members each and bin 10 has the remaining 7.
C17_LastBinTakesRemainder ==
    (deciles # NULL /\ Len(termSpreadsWithBtc) = 25) =>
        /\ Len(deciles[1]) = 10
        /\ \A k \in 1..9 : deciles[1][k].count = 2 /\ Len(deciles[1][k].members) = 2
        /\ deciles[1][10].count = 7 /\ Len(deciles[1][10].members) = 7

\* The table of 25 observations with varying spreads has been computed.
C17_Witness ==
    /\ deciles # NULL
    /\ Len(termSpreadsWithBtc) = 25
    /\ Len(deciles[1]) = 10
    /\ deciles[1][1].avgSpread # deciles[1][10].avgSpread

\* C18 (as stated): for a date whose only live maturity is shared by several
\* instruments, the stored front and back implied yields are the mean of the
\* implied yields of all those instruments.
C18_SoleMaturityMean ==
    lastOp = "computeTermSpreads" =>
        \A d \in Dates :
            (Cardinality(LiveMaturities(d)) = 1 /\ Cardinality(LiveRows(d)) >= 2) =>
                /\ d \in DOMAIN term_spreads
                /\ IsLegMean(term_spreads[d].front_implied, d, term_spreads[d].front_expiry)
                /\ IsLegMean(term_spreads[d].back_implied, d, term_spreads[d].back_expiry)

\* What the code does instead: both yields are the implied yield of one of
\* the instruments, the one named as front and back.
C18_SoleMaturityOneInstrument ==
    lastOp = "computeTermSpreads" =>
        \A d \in Dates :
            (Cardinality(LiveMaturities(d)) = 1 /\ Cardinality(LiveRows(d)) >= 2) =>
                /\ d \in DOMAIN term_spreads
                /\ \E r \in LiveRows(d) :
                      /\ term_spreads[d].front_addr = r.market_addr
                      /\ term_spreads[d].front_implied = r.implied_apy
                      /\ term_spreads[d].back_implied = r.implied_apy

\* A date whose sole live maturity is shared by two instruments of
\* different implied yield, with its record computed.
C18_Witness ==
    /\ lastOp = "computeTermSpreads"
    /\ \E d \in Dates :
          /\ Cardinality(LiveMaturities(d)) = 1
          /\ \E r1, r2 \in LiveRows(d) : r1.implied_apy # r2.implied_apy
          /\ d \in DOMAIN term_spreads

\* C19 (as stated): the spread records do not depend on the order in which
\* instruments of a shared maturity are read: a run of computeTermSpreads
\* after a run over the same snapshots leaves every field of every record as
\* it was, also when the order of tied rows has changed in between.
C19_OrderIndependent ==
    [][(lastOp = "computeTermSpreads" /\ lastOp' = "computeTermSpreads"
           /\ daily_snapshots' = daily_snapshots)
          => \A d \in DOMAIN term_spreads :
                 d \in DOMAIN term_spreads' /\ term_spreads'[d] = term_spreads[d]]_vars

\* What does hold for every order: the maturities, leg yields, spread and
\* maturity count of a record with two or more maturities.
C19_OrderIndependentYields ==
    [][(lastOp = "computeTermSpreads" /\ lastOp' = "computeTermSpreads"
           /\ daily_snapshots' = daily_snapshots)
          => \A d \in DOMAIN term_spreads :
                 /\ d \in DOMAIN term_spreads'
                 /\ term_spreads'[d].front_expiry = term_spreads[d].front_expiry
                 /\ term_spreads'[d].back_expiry = term_spreads[d].back_expiry
                 /\ term_spreads'[d].term_spread = term_spreads[d].term_spread
                 /\ term_spreads'[d].num_maturities = term_spreads[d].num_maturities
                 /\ term_spreads[d].num_maturities >= 2 =>
                        /\ term_spreads'[d].front_implied = term_spreads[d].front_implied
                        /\ term_spreads'[d].back_implied = term_spreads[d].back_implied]_vars

\* A record of two maturities whose back leg is shared by two instruments,
\* computed while tied rows come in descending order: the back instrument
\* named is the later-listed of the two.
C19_Witness ==
    /\ lastOp = "computeTermSpreads"
    /\ tieBreak = "desc"
    /\ \E d \in DOMAIN term_spreads :
          /\ term_spreads[d].num_maturities >= 2
          /\ Cardinality(LegRows(d, term_spreads[d].back_expiry)) >= 2
          /\ term_spreads[d].back_addr = SUSDE_MARKETS[3].address

\* ---------------------------------------------------------------- C20
\* The entries of a Pendle answer that ingestPendleMarket hands to its
\* transaction.
KeptEntries(results) ==
    IF Len(results) > 2 THEN Slice(results, 1, Len(results) - 1) ELSE results

BatchHandled ==
    /\ lastOp = "ingestPendleMarket"
    /\ batch # NULL
    /\ batch[1].ok

\* C20: when one record of a fetched batch lacks a required field, only that
\* record is dropped: every other record the ingest keeps of the batch is in
\* daily_snapshots, with its values, once the ingest is done.
C20_OnlyDefectiveDropped ==
    BatchHandled =>
        LET b == batch[1]
            kept == KeptEntries(b.results)
        IN \A k \in 1..Len(kept) :
               Binds(kept[k]) =>
                   LET key == <<kept[k].timestamp, b.market.address>>
                   IN /\ key \in DOMAIN daily_snapshots
                      /\ daily_snapshots[key].implied_apy = kept[k].impliedApy
                      /\ daily_snapshots[key].underlying_apy = kept[k].underlyingApy

\* C20, what the code does: a batch in which a kept record lacks a required
\* field stores nothing at all; a batch whose kept records are all complete
\* is stored whole.
C20_DefectiveBatchStoresNothing ==
    BatchHandled =>
        LET b == batch[1]
            kept == KeptEntries(b.results)
        IN IF \E k \in 1..Len(kept) : ~Binds(kept[k])
           THEN daily_snapshots = b.before
           ELSE \A k \in 1..Len(kept) :
                    <<kept[k].timestamp, b.market.address>> \in DOMAIN daily_snapshots

\* A fetched batch of four entries has been handled whose second entry lacks
\* its impliedApy while its third is complete, and the third is not stored.
C20_Witness ==
    /\ BatchHandled
    /\ Len(batch[1].results) = 4
    /\ "impliedApy" \notin DOMAIN batch[1].results[2]
    /\ Binds(batch[1].results[3])
    /\ <<batch[1].results[3].timestamp, batch[1].market.address>>
           \notin DOMAIN daily_snapshots
    /\ daily_snapshots = batch[1].before

\* ---------------------------------------------------------------- C21
Sources == <<"pendle", "defillama", "coingecko", "ethena">>

\* The rows the run that has just returned added to the sync log.
AppendedRows ==
    SubSeq(sync_log, Len(sync.prev[1].sync_log) + 1, Len(sync_log))

\* Whether a fetch of the source failed during the run.
FetchFailed(source) ==
    \E f \in sync.attempted \cap feeds.down : f[1] = source

\* The run added one row per source, in the order of the ingest functions,
\* and left the rows that were there as they were.
OneRowPerSource ==
    /\ LogGrew
    /\ Len(AppendedRows) = Len(Sources)
    /\ \A k \in 1..Len(Sources) : AppendedRows[k].source = Sources[k]

\* C21 (as stated): each fullSync appends exactly one sync-log row per source;
\* the row has status "error" whenever a fetch of that source failed during
\* the run and "ok" otherwise; the rows that were there are left as they were.
C21_LogTellsFailures ==
    lastOp = "fullSync" =>
        /\ OneRowPerSource
        /\ \A k \in 1..Len(Sources) :
               AppendedRows[k].status =
                   IF FetchFailed(Sources[k]) THEN "error" ELSE "ok"

\* C21, what the code does: one row per source is appended and nothing else
\* changes; the rows of defillama and ethena tell a failed fetch, the rows of
\* pendle and coingecko have status "ok" whatever happened to their fetches.
C21_LogTellsSingleFetchFailures ==
    lastOp = "fullSync" =>
        /\ OneRowPerSource
        /\ \A k \in 1..Len(Sources) :
               AppendedRows[k].status =
                   IF Sources[k] \in {"defillama", "ethena"} /\ FetchFailed(Sources[k])
                   THEN "error" ELSE "ok"

\* A second run has returned in which a Pendle history, a CoinGecko chart,
\* DefiLlama and Ethena all failed, over a log that held the first run's rows.
C21_Witness ==
    /\ lastOp = "fullSync"
    /\ sync.runs = 2
    /\ Len(sync.prev[1].sync_log) = Len(Sources)
    /\ \A k \in 1..Len(Sources) : FetchFailed(Sources[k])
    /\ AppendedRows[1].status = "ok"
    /\ AppendedRows[2].status = "error"

\* ---------------------------------------------------------------- C22
\* The price of a member at its date and the price about 90 days later, as
\* the dashboard resolves them.
CurrentPriceOf(row) ==
    IF row.btc_price # NULL THEN row.btc_price
    ELSE findBtcPrice(btcPriceMap, row.date)

FuturePriceOf(row) == findBtcPrice(btcPriceMap, addDays(row.date, 90))

\* The positions of the members of a bin that have both prices.
ResolvablePairs(members) ==
    { k \in 1..Len(members) :
        CurrentPriceOf(members[k]) # NULL /\ FuturePriceOf(members[k]) # NULL }

RECURSIVE SumOver(_, _)
SumOver(f, S) ==
    IF S = {} THEN 0
    ELSE LET k == CHOOSE x \in S : TRUE
         IN f[k] + SumOver(f, S \ {k})

\* (futurePrice - currentPrice) / currentPrice of the members, as a fraction
\* (scale 1) or in percent (scale 100), in units of 1 / DecUnit.
ReturnsOf(members, scale) ==
    [k \in ResolvablePairs(members) |->
        ((FuturePriceOf(members[k])[1] - CurrentPriceOf(members[k])[1]) * scale * DecUnit)
            \div CurrentPriceOf(members[k])[1]]

MeanReturnIs(row, scale) ==
    LET pairs == ResolvablePairs(row.members)
    IN /\ row.count = Len(row.members)
       /\ row.avgBtcReturn90d =
              IF pairs = {} THEN NULL
              ELSE Some(SumOver(ReturnsOf(row.members, scale), pairs)
                            \div Cardinality(pairs))

ChartRows == VolRows(termSpreadsWithBtc, btcPriceMap)

PositiveBefore(p) ==
    Cardinality({ j \in 1..(p - 1) : ChartRows[j].btc > 0 })

NullBelowThirty ==
    /\ Len(volChart[1]) = Len(ChartRows)
    /\ \A p \in 1..Len(ChartRows) :
           p - 1 < 30 => volChart[1][p].vol30d = NULL

\* C23 (as stated): the volatility of an entry is null (not zero) whenever
\* fewer than 30 entries with a price precede it, and is not null whenever at
\* least 30 entries with a positive price precede it.
C23_VolNullIffShortHistory ==
    volChart # NULL =>
        /\ NullBelowThirty
        /\ \A p \in 1..Len(ChartRows) :
               PositiveBefore(p) >= 30 => volChart[1][p].vol30d # NULL

\* C23 (amended): the volatility of an entry is null (not zero) whenever
\* fewer than 30 entries with a price precede it, and is not null whenever
\* the 30 entries with a price that come just before it all have a positive
\* price.
C23_VolNullIffShortWindow ==
    volChart # NULL =>
        /\ NullBelowThirty
        /\ \A p \in 1..Len(ChartRows) :
               (p - 1 >= 30 /\ \A j \in (p - 30)..(p - 1) : ChartRows[j].btc > 0)
                   => volChart[1][p].vol30d # NULL

\* A chart over constant positive prices: the entry with 29 predecessors has
\* no volatility, the entry with 30 has one, and it is zero.
C23_Witness ==
    /\ volChart # NULL
    /\ Len(ChartRows) >= 31
    /\ \A j \in 1..31 : ChartRows[j].btc = 100
    /\ volChart[1][30].vol30d = NULL
    /\ volChart[1][31].vol30d # NULL
    /\ volChart[1][31].vol30d[1].zero

\* ---------------------------------------------------------------- C24
\* The dates on or before today that have a spread record, and the record of
\* the latest of them.
SpreadDatesToDate == { d \in DOMAIN term_spreads : d <= today }

LatestRecordToDate ==
    term_spreads[CHOOSE d \in SpreadDatesToDate : \A e \in SpreadDatesToDate : e <= d]

\* The classification the dashboard shows for a record.
RegimeOfRecord(rec) ==
    LET in == CurveInput(Some(rec))
    IN [spreadPct |-> in.spreadValue,
        spreadType |-> in.spreadType,
        result |-> Some(interpretTermSpread(in.spreadValue, in.spreadType))]

\* The dashboard renders what it has just loaded.
RendersFreshAnswer == lastOp = "getTermStructure" /\ lastOp' = "curve"

\* C24 (as stated): whenever a spread record exists on or before today, the
\* dashboard produces a classification, and it is that of the latest such
\* record.
C24_LatestRecordClassified ==
    [][(RendersFreshAnswer /\ SpreadDatesToDate # {}) =>
           cls' = RegimeOfRecord(LatestRecordToDate)]_vars

\* C24, what the code does: the record classified is the one of the latest
\* date on or before today that has a snapshot; when that date has no spread
\* record nothing is classified, whatever records earlier dates have.
C24_LatestSnapshotDateClassified ==
    [][RendersFreshAnswer =>
           LET closestDate == ClosestDate(daily_snapshots, today)
           IN cls' = IF closestDate # NULL /\ closestDate[1] \in DOMAIN term_spreads
                     THEN RegimeOfRecord(term_spreads[closestDate[1]])
                     ELSE NoClass]_vars

\* The dashboard has rendered the classification of the later of two spread
\* records, loaded on a later day.
C24_Witness ==
    /\ lastOp = "curve"
    /\ Cardinality(SpreadDatesToDate) = 2
    /\ today \notin DOMAIN term_spreads
    /\ api[1].body.termSpread = Some(LatestRecordToDate)
    /\ cls = RegimeOfRecord(LatestRecordToDate)

\* ---------------------------------------------------------------- C25
\* What the dashboard presents of one feed: the data it holds for the feed
\* and the message it shows about it, if any.
MessageOf(feed) ==
    IF feed = "termStructure" THEN "No term structure data available"
    ELSE IF feed = "termSpreadsWithBtc" THEN "No term spread history available"
    ELSE "Failed to fetch DefiLlama history"

Presented(loaded, feed) ==
    [data |-> loaded.data[feed],
     message |-> \E k \in 1..Len(loaded.errors) : loaded.errors[k] = MessageOf(feed)]

\* What a fetch of the feed answers when it succeeds and the server has no
\* data for it.
EmptyAnswers ==
    [termStructure |-> termStructure(<<>>, <<>>, today),
     termSpreadsWithBtc |-> termSpreadsWithBtcRows(<<>>, <<>>, <<>>),
     defiLlama |-> defiLlamaRows(<<>>)]

PresentedWhenEmpty(feed) == Presented(loadData(EmptyAnswers, {}), feed)

\* C25 (as stated): for each of the three feeds, what is presented after a
\* failed fetch differs from what is presented after a successful fetch that
\* returned no data.
C25_FailureDistinctFromNoData ==
    dashboard # NULL =>
        \A feed \in dashboard[1].rejected :
            Presented(dashboard[1].loaded, feed) # PresentedWhenEmpty(feed)

\* C25, what the code does: a failed fetch of the spread history or of the
\* DefiLlama history is presented exactly as an empty answer; a failed
\* fetch of the term structure differs from an empty answer only in the date
\* shown, which is blank.
C25_FailurePresentedAsNoData ==
    dashboard # NULL =>
        \A feed \in dashboard[1].rejected :
            LET shown == Presented(dashboard[1].loaded, feed)
                empty == PresentedWhenEmpty(feed)
            IN /\ shown.message /\ empty.message
               /\ feed # "termStructure" => shown = empty
               /\ feed = "termStructure" =>
                      /\ shown.data = [empty.data EXCEPT !.date = BlankDate]
                      /\ empty.data.date = today

\* A load in which the DefiLlama fetch failed while the server holds a
\* DefiLlama series, the other feeds arriving with data.
C25_Witness ==
    /\ dashboard # NULL
    /\ dashboard[1].rejected = {"defiLlama"}
    /\ defillama_apy # <<>>
    /\ Len(dashboard[1].loaded.data.termSpreadsWithBtc) > 0
    /\ Len(dashboard[1].loaded.data.termStructure.maturities) > 0
    /\ dashboard[1].loaded.errors = <<"Failed to fetch DefiLlama history">>

\* ---------------------------------------------------------------- C26
\* The first calendar day with a price among target+1, target-1, target+2,
\* target-2, target+3, target-3, or NULL.
RECURSIVE FirstDayWithPrice(_, _)
FirstDayWithPrice(date, offsets) ==
    IF offsets = <<>> THEN NULL
    ELSE IF date + Head(offsets) \in DOMAIN btcPriceMap THEN Some(date + Head(offsets))
    ELSE FirstDayWithPrice(date, Tail(offsets))

AbsDiff(a, b) == IF a >= b THEN a - b ELSE b - a

ProbesInOrder ==
    LET date == lookup[1].date
        day == FirstDayWithPrice(date, << 1, 0 - 1, 2, 0 - 2, 3, 0 - 3 >>)
    IN /\ lookup[1].price = IF day = NULL THEN NULL ELSE Some(btcPriceMap[day[1]])
       /\ day # NULL =>
              /\ \A d \in DOMAIN btcPriceMap : AbsDiff(day[1], date) <= AbsDiff(d, date)
              /\ (2 * date - day[1]) \in DOMAIN btcPriceMap => day[1] > date

\* C26 (as stated): when the target date has no price, the lookup returns the
\* price of the first day with a price among target+1, target-1, target+2,
\* target-2, target+3, target-3; that day is at minimal distance from the
\* target, and of two days equally distant it is the later one.
C26_NearestLaterFirst ==
    (lookup # NULL /\ lookup[1].date \notin DOMAIN btcPriceMap) => ProbesInOrder

\* C26 holds on a host whose offset from UTC never changes.
C26_NearestLaterFirstFixedOffset ==
    (lookup # NULL /\ lookup[1].date \notin DOMAIN btcPriceMap
        /\ timeZone.before = timeZone.after) => ProbesInOrder

\* A lookup on a day without a price, with prices two days before and two
\* days after it and none nearer, that returned the later day's price.
C26_Witness ==
    /\ lookup # NULL
    /\ timeZone = UtcZone
    /\ LET date == lookup[1].date
       IN /\ DaysWithin3(date) \cap ((date - 2)..(date + 2)) = {date - 2, date + 2}
          /\ lookup[1].price = Some(btcPriceMap[date + 2])
          /\ btcPriceMap[date + 2] # btcPriceMap[date - 2]

\* ---------------------------------------------------------------- C27
\* Every spread record has a smoothed value, the mean of the spreads of the
\* up to seven records that end the series at it.
SmoothedThroughout ==
    \A d \in DOMAIN term_spreads :
        LET i == SeriesIndex(d)
            lo == IF i >= 6 THEN i - 6 ELSE 0
            sm == term_spreads[d].term_spread_7dma
        IN /\ sm # NULL
           /\ sm[1] = SpreadTotal(SeriesDates(lo, i)) \div (i - lo + 1)

\* C27: after every completed fullSync, one that changed the spread of an
\* earlier date included, every spread record has a smoothed value and it is
\* the trailing 7-entry mean of the spread series as it is now.
C27_SmoothedAfterEverySync ==
    lastOp = "fullSync" => SmoothedThroughout

\* A second run has completed that changed the spread stored for day 1 and,
\* with it, the smoothed value of day 2.
C27_Witness ==
    /\ lastOp = "fullSync"
    /\ sync.runs = 2
    /\ LET was == sync.prev[1].term_spreads
       IN /\ {1, 2} \subseteq DOMAIN was
          /\ term_spreads[1].term_spread # was[1].term_spread
          /\ term_spreads[2].term_spread = was[2].term_spread
          /\ term_spreads[2].term_spread_7dma # was[2].term_spread_7dma

\* ---------------------------------------------------------------- C28
\* No call of fullSync is in progress and each of the two has returned.
BothReturned ==
    /\ sync.pc = "idle"
    /\ other.pc = "idle"
    /\ sync.runs >= 1
    /\ other.runs >= 1

\* The spread records computed from the snapshot table as it is now, into an
\* empty table.
DerivedSpreads == computeTermSpreads(daily_snapshots, <<>>)

\* C28: once two overlapping calls of fullSync have both returned, every
\* spread record equals the one derived from the final snapshot table and
\* every smoothed value is the trailing mean of the final spread series.
C28_OverlappingRunsConverge ==
    BothReturned =>
        /\ DOMAIN term_spreads = DOMAIN DerivedSpreads
        /\ \A d \in DOMAIN term_spreads :
               [term_spreads[d] EXCEPT !.term_spread_7dma = NULL] = DerivedSpreads[d]
        /\ SmoothedThroughout

\* Two calls that both began on the empty store have returned; the one that
\* returned first had computed its spreads from other snapshots than the
\* final ones.
C28_Witness ==
    /\ BothReturned
    /\ lastOp = "fullSync"
    /\ sync.runs = 1
    /\ other.runs = 1
    /\ sync.prev[1].sync_log = <<>>
    /\ other.prev[1].sync_log = <<>>
    /\ 1 \in DOMAIN term_spreads
    /\ \E k \in DOMAIN sync.prev[1].daily_snapshots :
           sync.prev[1].daily_snapshots[k] # daily_snapshots[k]

\* ---------------------------------------------------------------- C29
\* GET /api/term-spreads has just been answered while a fullSync waits at one
\* of its fetches.
ServedDuringSync ==
    /\ lastOp = "getTermSpreads"
    /\ sync.pc # "idle"

\* C29: with fullSync the only writer on a store that began empty, every
\* record a request reads while a sync is in progress has a smoothed value,
\* the trailing mean of the spreads stored at that moment.
C29_ReadsSeeSmoothedRecords ==
    ServedDuringSync =>
        \A k \in DOMAIN api[1].body :
            LET row == api[1].body[k]
                i == SeriesIndex(row.date)
                lo == IF i >= 6 THEN i - 6 ELSE 0
            IN /\ row.term_spread_7dma # NULL
               /\ row.term_spread_7dma[1] =
                      SpreadTotal(SeriesDates(lo, i)) \div (i - lo + 1)

\* A request without bounds is answered with two records while the second
\* run, having stored other snapshots than the records were computed from,
\* waits for DefiLlama.
C29_Witness ==
    /\ ServedDuringSync
    /\ sync.pc = "defillama"
    /\ sync.runs = 1
    /\ api[1].request = <<NULL, NULL>>
    /\ Len(api[1].body) = 2
    /\ daily_snapshots # sync.prev[1].daily_snapshots

\* ---------------------------------------------------------------- C30
\* The buckets whose filter kept observation k of the series.
BucketsOf(k) == { b \in RegimeBuckets : k \in regimeStats[1].kept[b] }

\* The shape interpretTermSpread assigns to the raw spread of observation k.
AssignedShape(k) ==
    interpretTermSpread(termSpreadsWithBtc[k].term_spread, "term_spread").shape

\* C30: the regime statistics count every observation in exactly one of the
\* five buckets, the one of the shape interpretTermSpread assigns to its raw
\* spread, the boundary values 2, 0.5, -0.5 and -5 included.
C30_BucketIsAssignedShape ==
    regimeStats # NULL =>
        \A k \in 1..Len(termSpreadsWithBtc) : BucketsOf(k) = {AssignedShape(k)}

\* What holds instead: every observation is counted in exactly one bucket,
\* the one of its shape unless its spread is exactly -0.5 points (counted
\* as flat) or exactly -5 points (counted as backwardation).
C30_BucketIsAssignedShapeOffLowerBounds ==
    regimeStats # NULL =>
        \A k \in 1..Len(termSpreadsWithBtc) :
            LET s == termSpreadsWithBtc[k].term_spread
            IN /\ Cardinality(BucketsOf(k)) = 1
               /\ 2 * s = 0 - PctPoint => BucketsOf(k) = {"FLAT"}
               /\ s = 0 - 5 * PctPoint => BucketsOf(k) = {"BACKWARDATION"}
               /\ (2 * s # 0 - PctPoint /\ s # 0 - 5 * PctPoint)
                      => BucketsOf(k) = {AssignedShape(k)}

\* The statistics of a series with an observation of exactly 2 points and
\* one of exactly -5 points have been rendered.
C30_Witness ==
    /\ regimeStats # NULL
    /\ regimeStats[1].total = 2
    /\ termSpreadsWithBtc[1].term_spread = 2 * PctPoint
    /\ termSpreadsWithBtc[2].term_spread = 0 - 5 * PctPoint
    /\ regimeStats[1].kept["CONTANGO"] = {1}
    /\ regimeStats[1].kept["BACKWARDATION"] = {2}

====
